---------------------------- MODULE Spec2Model ----------------------------
(***************************************************************************)
(* Model of the smart-hub voice front end: the UDP voice server of         *)
(* services/stt-server/main.py (AudioDevice, receive_loop,                 *)
(* process_audio_loop, handle_speech_end) together with the per-microphone *)
(* wake-word detector of client/wake_word/detector.py, and the variant of  *)
(* the server in client/udp_server.py (SpecClient).  Further               *)
(* specifications start the server from a state with two sessions          *)
(* (SpecHandoff), start the detector inside a cooldown (SpecValve), tell   *)
(* the socket receive from its handling around stop()                      *)
(* (SpecStop), follow start_server (SpecStart) and the callers of the      *)
(* WhisperProcessor of audio_processing/transcribe.py (SpecWhisper).       *)
(* The other services each have a variable and a specification of their    *)
(* own: the ESP32 discovery of services/esp-home/main.py (SpecEsp), the    *)
(* Wyoming event handler of services/stt-server/stt.py (SpecStream), the   *)
(* DeviceManager of services/stt-server/device_manager.py (SpecManager),   *)
(* the Zigbee2MQTTController of services/stt-server/zigbee_controller.py   *)
(* (SpecZigbee) and the WyomingClientWrapper of                            *)
(* client/clients/wyoming_client.py (SpecWyoming).                         *)
(*                                                                         *)
(* Scheduling: one asyncio event loop.  receive_loop and process_audio_loop*)
(* interleave only at awaits that really suspend: the socket receive, the  *)
(* sleep between sweeps and the two collaborator calls of                  *)
(* handle_speech_end.  The sweep is therefore modelled as a sequence of    *)
(* steps (one per device, one per VAD frame) during which no datagram is   *)
(* delivered; only the wall clock may advance.                             *)
(*                                                                         *)
(* Scaling: sizes and durations of the program are scaled down so that the *)
(* state space is finite; every scaled constant names the source value.    *)
(* Time is counted in ticks of 10 s; audio in int16 samples and bytes.     *)
(***************************************************************************)
EXTENDS Integers, Sequences, FiniteSets, TLC

\* ------------------------------------------------------------------ bounds
\* The clock stops advancing at MaxTime.
MaxTime == 4
\* At most MaxEspQueue discovered devices wait in the queue of the listener.
MaxEspQueue == 2
\* At most MaxStreamBuffer payloads are buffered in one audio stream.
MaxStreamBuffer == 3
\* At most MaxZigbeeQueue messages wait in the message queue of the controller.
MaxZigbeeQueue == 3
\* At most MaxSent audio events are written to the Wyoming server.
MaxSent == 4
\* At most MaxSuspended calls of one method of the Wyoming client are
\* suspended in a write at a time.
MaxSuspended == 2
\* At most MaxRecv datagrams are delivered in one behaviour.
MaxRecv == 3
\* At most MaxDetectCalls calls of detect in the detector-only specification.
MaxDetectCalls == 5
\* At most MaxRingWrites datagrams in the specification of the VAD buffer.
MaxRingWrites == 5
\* At most MaxClientRecv datagrams in the specification of the client's server.
MaxClientRecv == 4

\* Datagrams received after the second device has joined (SpecHandoff).
MaxHandoffRecv == 1
\* Datagrams read from the socket in the specification of stop() (SpecStop).
MaxStopRecv == 1

\* ------------------------------------------------------- program constants
\* time.time() when the server starts: far above 0, the initial
\* last_detection_time of a microphone (detector.py:31).
StartTime == 1
\* detection_cooldown = 0.3 s (detector.py:95) is shorter than a tick: more
\* than the cooldown has elapsed exactly when at least one tick has.
detection_cooldown == 0
\* max_listening_duration = 10 s (main.py:96), scaled to ticks.
max_listening_duration == 1
\* Idle eviction after 30 s (main.py:177), scaled to ticks.
EvictionTimeout == 2
\* detection_threshold = 0.4 (detector.py:96), in tenths.
detection_threshold == 4
\* consecutive_threshold = 2 (detector.py:98).
consecutive_threshold == 2
\* max_buffer_size = 24000 samples (detector.py:99), scaled.
max_buffer_size == 4
\* deque(maxlen=50) (main.py:43), scaled.
DetectionMaxLen == 2
\* len(detection_buffer) >= 25 (main.py:184), scaled.
DetectionMinChunks == 1
\* vad_buffer of 16000 * 2 samples (main.py:41), scaled.
VadBufferLen == 4
\* vad.chunk_size = 512 samples (vad2.py:43), scaled: a silence run of
\* silence_threshold frames is shorter than min_audio_length, as in the source
\* (30 * 512 samples at 16 kHz are 61440 bytes at 32 kHz, below 64000).
chunk_size == 1
\* vad.vad_threshold = 0.4 (vad2.py:44), in tenths.
vad_threshold == 4
\* vad.silence_threshold = 30 frames (vad2.py:42), scaled.
silence_threshold == 2
\* vad.min_audio_length = 1 s of 32 kHz 16-bit audio = 64000 bytes
\* (vad2.py:41 with main.py:229), scaled to bytes.
MinAudioBytes == 16

\* vad_threshold = 0.5 of the client's VADProcessor (client vad.py:44), in tenths.
client_vad_threshold == 5

\* max_retries = 3 bind attempts (client/udp_server.py:82).
max_retries == 3
\* port = 12345, the base port of the client's server (client/udp_server.py:82).
base_port == 12345
\* port = 12345 of the server of services/stt-server (main.py:88).
stt_port == 12345

\* The settings of the VADProcessor of services/stt-server
\* (voice_processing.py:94-98), scaled: vad_threshold = 0.3 in tenths,
\* silence_threshold = 15 frames as 2, chunk_size = 512 samples as 2 (it is
\* also the maxlen of Device.vad_buffer), min_audio_length = 1.0 s as one
\* tick of the stream clock and max_audio_length = 30.0 s as 3 ticks.
stream_vad_threshold == 3
stream_silence_threshold == 2
stream_chunk_size == 2
min_audio_length == 1
max_audio_length == 3

\* ------------------------------------------------------------------ inputs
Sources == {"10.0.0.1", "10.0.0.2"}

\* Datagram payloads (bytes, little-endian int16 samples): an empty payload, a
\* payload with an odd number of bytes and a chunk of four samples.
Payloads ==
    { <<>>, <<7>>, <<3, 0, 4, 0, 5, 0, 6, 0>> }

\* Scores of the two scorers, in tenths: below, at and above the thresholds.
Scores == {0, 4, 9}

\* --------------------------------------------------------------- sequences
RECURSIVE Concat(_)
\* np.concatenate(list(chunks)): the chunks joined in order.
Concat(chunks) ==
    IF chunks = <<>> THEN <<>> ELSE Head(chunks) \o Concat(Tail(chunks))

\* a[::2]: every other element, starting with the first.
Downsample(a) == [i \in 1..((Len(a) + 1) \div 2) |-> a[2 * i - 1]]

\* a[-n:] for n >= 1: the last n elements (all of a when it is shorter).
LastN(a, n) ==
    IF Len(a) <= n THEN a ELSE SubSeq(a, Len(a) - n + 1, Len(a))

\* np.frombuffer(data, dtype=np.int16): little-endian pairs of bytes.  Defined
\* for payloads of even length; an odd length raises ValueError.
FromBuffer(data) ==
    [i \in 1..(Len(data) \div 2) |-> data[2 * i - 1] + 256 * data[2 * i]]

FromBufferRaises(data) == Len(data) % 2 = 1

ClipValue(x) == IF x < -32768 THEN -32768 ELSE IF x > 32767 THEN 32767 ELSE x

\* audio_clip: np.clip(chunk, -32768, 32767).
audio_clip(audio_chunk) == [i \in 1..Len(audio_chunk) |-> ClipValue(audio_chunk[i])]

\* np.roll(a, -k): a rotated left by k places.
RollLeft(a, k) == [i \in 1..Len(a) |-> a[((i - 1 + k) % Len(a)) + 1]]

\* deque(maxlen=n).append(x): the oldest element is dropped when full.
DequeAppend(q, x, n) == LastN(Append(q, x), n)


\* ------------------------------------------------------------------- state
VARIABLES
    now,          \* time.time(), in ticks
    running,      \* VoiceAssistantUDPServer._running
    order,        \* keys of self.devices, in insertion order
    devices,      \* self.devices: ip -> AudioDevice (blank when not registered)
    micKnown,     \* keys of detector.mic_states
    mic_states,   \* detector.mic_states: mic_id -> MicrophoneState
    pc,           \* where process_audio_loop is suspended or running
    sweepList,    \* the devices the current sweep has still to visit
    current_time, \* current_time of the running sweep
    handoff,      \* the utterance handle_speech_end has packaged and is handing off
    nRecv,        \* datagrams delivered so far
    nDetect,      \* direct detect calls so far (detector-only specification)
    triggered,    \* the source for which detect returned true in the last step
    episode,      \* per source: history of the current LISTENING episode
    lastTrigger,  \* per source: time of the last detect call that returned true
    windows,      \* per source: the latest scored windows of the detector
    event,        \* what the last step did: a datagram, the end of a hand-off, ...
    saved,        \* the audio files written by save_audio (client/udp_server.py)
    pending,      \* the datagram a receive has read and receive_loop has yet to handle
    boot,         \* start_server: the bind attempts made and what came of them
    whisper,      \* WhisperProcessor: its lock and the calls in progress
    esp,          \* ESP32VoiceSystem: advertised devices, clients and client tasks
    stream,       \* ClientEventHandler of stt.py: the device of one connection
    dm,           \* DeviceManager: the device table and the group index
    zigbee,       \* Zigbee2MQTTController: websocket, flags and tasks
    wyoming       \* WyomingClientWrapper: flags, calls in progress, events sent

vars ==
    << now, running, order, devices, micKnown, mic_states, pc, sweepList,
       current_time, handoff, nRecv, nDetect, triggered, episode, lastTrigger,
       windows, event, saved, pending, boot, whisper,
       esp, stream, dm, zigbee, wyoming >>

\* The variables the loops of the running server leave alone.
auxVars == << saved, pending, boot, whisper, esp, stream, dm, zigbee, wyoming >>

\* The other services of the repository, which share no state with the server.
otherVars == << esp, stream, dm, zigbee, wyoming >>

serverVars ==
    << running, order, devices, pc, sweepList, current_time, handoff, nRecv, episode >>

detectorVars == << micKnown, mic_states, lastTrigger, windows >>

Registered == {order[i] : i \in 1..Len(order)}

\* -------------------------------------------------------------- AudioDevice
\* AudioDevice.__post_init__ at time t.  listening_start_time is no attribute
\* of a fresh device: -1 stands for its absence.
NewDevice(t) ==
    [ state                |-> "DETECTING",
      listening            |-> FALSE,
      audio_buffer         |-> <<>>,
      silence_counter      |-> 0,
      vad_buffer           |-> [i \in 1..VadBufferLen |-> 0],
      vad_cursor           |-> 0,
      detection_buffer     |-> <<>>,
      last_activity        |-> t,
      listening_start_time |-> -1 ]

\* The place of an ip that is not in self.devices.
NoDevice == NewDevice(0)

\* The circular write of add_audio_data (main.py:70-78): audio_16k is written
\* at the cursor; when it does not fit in the space behind the cursor the
\* buffer is rolled so that the cursor is at 0 again.
VadWrite(d, audio_16k) ==
    LET remaining_space == Len(d.vad_buffer) - d.vad_cursor
        overflow == Len(audio_16k) > remaining_space
        buf == IF overflow THEN RollLeft(d.vad_buffer, d.vad_cursor) ELSE d.vad_buffer
        cur == IF overflow THEN 0 ELSE d.vad_cursor
        end_pos == cur + Len(audio_16k)
    IN  [d EXCEPT
            !.vad_buffer = [i \in 1..Len(buf) |->
                               IF i > cur /\ i <= end_pos THEN audio_16k[i - cur] ELSE buf[i]],
            !.vad_cursor = end_pos]

\* add_audio_data putting the payload in front of the utterance buffer.
add_audio_data_in_front(d, data, t) ==
    IF FromBufferRaises(data) THEN d
    ELSE LET audio_chunk == FromBuffer(data)
             d1 == [d EXCEPT !.last_activity = t]
         IN  IF d1.state = "DETECTING"
             THEN [d1 EXCEPT !.detection_buffer =
                       DequeAppend(@, audio_clip(audio_chunk), DetectionMaxLen)]
             ELSE IF d1.state = "LISTENING"
             THEN VadWrite([d1 EXCEPT !.audio_buffer = data \o @],
                           Downsample(audio_chunk))
             ELSE d1

\* AudioDevice.add_audio_data(data) at time t.  np.frombuffer raises on a
\* payload that is not a whole number of samples; the handler of line 80
\* logs it, and nothing has been changed by then.  A sample stays the integer
\* it is: the division by 32767.0 is a change of unit.
add_audio_data(d, data, t) ==
    IF FromBufferRaises(data) THEN d
    ELSE LET audio_chunk == FromBuffer(data)
             d1 == [d EXCEPT !.last_activity = t]
         IN  IF d1.state = "DETECTING"
             THEN [d1 EXCEPT !.detection_buffer =
                       DequeAppend(@, audio_clip(audio_chunk), DetectionMaxLen)]
             ELSE IF d1.state = "LISTENING"
             THEN VadWrite([d1 EXCEPT !.audio_buffer = @ \o data],
                           Downsample(audio_chunk))
             ELSE d1

\* ---------------------------------------------------------- WakeWordDetector
\* The outcome of oww.predict for a full buffer: a confidence, or an exception.
InferenceError == 0 - 1
Outcomes == Scores \cup {InferenceError}

\* No time: of a trigger that has not happened.
NoTime == 0 - 1

\* MicrophoneState.create_empty.
create_empty == [buffer |-> <<>>, consecutive_detections |-> 0, last_detection_time |-> 0]

\* A sample that is not finite (nan or inf of a float chunk): a value no
\* int16 sample has.
NotFinite == 32768 * 2

\* WakeWordDetector._validate_audio: a chunk with at least one sample, all of
\* them finite (every int16 sample is).
validate_audio(audio_chunk) ==
    /\ Len(audio_chunk) > 0
    /\ \A i \in 1..Len(audio_chunk) : audio_chunk[i] # NotFinite

\* A buffer that keeps its oldest samples when it overflows.
update_buffer_keeps_oldest(buffer, audio_chunk) ==
    LET joined == IF Len(buffer) = 0 THEN audio_chunk ELSE buffer \o audio_chunk
    IN  IF Len(joined) > max_buffer_size THEN SubSeq(joined, 1, max_buffer_size) ELSE joined

\* WakeWordDetector._update_buffer.
update_buffer(buffer, audio_chunk) ==
    LET joined == IF Len(buffer) = 0 THEN audio_chunk ELSE buffer \o audio_chunk
    IN  IF Len(joined) > max_buffer_size THEN LastN(joined, max_buffer_size) ELSE joined

\* A confirmation that does not look at the cooldown.
DetectedIgnoringCooldown(mic_state, t) ==
    mic_state.consecutive_detections >= consecutive_threshold

\* WakeWordDetector._is_wake_word_detected.
is_wake_word_detected(mic_state, t) ==
    /\ mic_state.consecutive_detections >= consecutive_threshold
    /\ t - mic_state.last_detection_time > detection_cooldown

\* A reset that leaves the time of the last detection as it is.
ResetKeepsTime(mic_state, t) ==
    [buffer |-> <<>>,
     consecutive_detections |-> 0,
     last_detection_time |-> mic_state.last_detection_time]

\* A reset that keeps the consecutive counter.
ResetKeepsCounter(mic_state, t) ==
    [buffer |-> <<>>,
     consecutive_detections |-> mic_state.consecutive_detections,
     last_detection_time |-> t]

\* WakeWordDetector._reset_mic_state at time t.
reset_mic_state(mic_state, t) ==
    [buffer |-> <<>>, consecutive_detections |-> 0, last_detection_time |-> t]

\* The consecutive counter after an inference with this confidence (detector.py:131-134).
count_detection(mic_state, confidence) ==
    IF confidence > detection_threshold
    THEN [mic_state EXCEPT !.consecutive_detections = @ + 1]
    ELSE [mic_state EXCEPT !.consecutive_detections = 0]

\* A detector without the safety valve.
safety_valve_off(mic_state) == mic_state

\* The safety valve of detector.py:143-144.
safety_valve(mic_state) ==
    IF mic_state.consecutive_detections > consecutive_threshold * 2
    THEN [mic_state EXCEPT !.consecutive_detections = 0]
    ELSE mic_state

\* WakeWordDetector.detect(audio_chunk, mic_id) at time t on the state of
\* mic_id, outcome being what the model answers should inference run:
\* the state afterwards, the value returned, and whether inference ran.
detect(mic_state, audio_chunk, t, outcome) ==
    IF ~validate_audio(audio_chunk)
    THEN [mic |-> mic_state, result |-> FALSE, inferred |-> FALSE, failed |-> FALSE]
    ELSE LET m1 == [mic_state EXCEPT !.buffer = update_buffer(@, audio_chunk)]
         IN  IF Len(m1.buffer) # max_buffer_size
             THEN [mic |-> m1, result |-> FALSE, inferred |-> FALSE, failed |-> FALSE]
             ELSE IF outcome = InferenceError
             THEN [mic |-> reset_mic_state(m1, t), result |-> FALSE,
                   inferred |-> FALSE, failed |-> TRUE]
             ELSE LET m2 == count_detection(m1, outcome)
                  IN  IF is_wake_word_detected(m2, t)
                      THEN [mic |-> reset_mic_state(m2, t), result |-> TRUE,
                            inferred |-> TRUE, failed |-> FALSE]
                      ELSE [mic |-> safety_valve(m2), result |-> FALSE,
                            inferred |-> TRUE, failed |-> FALSE]

\* The record kept of one scored window: whether it scored above the
\* threshold, whether detect returned true, whether the cooldown had elapsed
\* and what the consecutive counter was when detect was called.
Window(mic_state, t, outcome, r) ==
    [ above |-> outcome > detection_threshold,
      trig  |-> r.result,
      cool  |-> t - mic_state.last_detection_time > detection_cooldown,
      c0    |-> mic_state.consecutive_detections ]

\* A call of detect whose failure resets the state of every microphone.
DetectorCallResetsAll(mic_id, r) ==
    /\ micKnown' = micKnown \cup {mic_id}
    /\ mic_states' = IF r.failed
                     THEN [ip \in Sources |-> r.mic]
                     ELSE [mic_states EXCEPT ![mic_id] = r.mic]

\* The effect of the call self.detector.detect(audio_chunk, mic_id) on the
\* detector, r being what detect computes: mic_states[mic_id] creates the
\* entry of an unknown mic_id (detector.py:115).
DetectorCall(mic_id, r) ==
    /\ micKnown' = micKnown \cup {mic_id}
    /\ mic_states' = [mic_states EXCEPT ![mic_id] = r.mic]

\* The history of the detector-only specification after that call.
DetectorHistory(mic_id, outcome, r) ==
    /\ lastTrigger' = IF r.result THEN [lastTrigger EXCEPT ![mic_id] = now] ELSE lastTrigger
    /\ windows' =
          IF r.failed THEN [windows EXCEPT ![mic_id] = <<>>]
          ELSE IF r.inferred
          THEN [windows EXCEPT ![mic_id] =
                    LastN(Append(@, Window(mic_states[mic_id], now, outcome, r)), 3)]
          ELSE windows

\* ------------------------------------------------- VoiceAssistantUDPServer
\* No source.
NoSource == "-"

\* What a step did, for the steps that are told apart by it: kind says what
\* happened, ip and data to which source and with which payload.
Event(kind, ip, data) == [kind |-> kind, ip |-> ip, data |-> data]

\* A step that is told apart by its effect alone.
NoEvent == Event("none", NoSource, <<>>)

\* No datagram read and unhandled.
NoDatagram == [ip |-> NoSource, data |-> <<>>]

\* start_server of the server named by variant ("stt": services/stt-server/
\* main.py, "client": client/udp_server.py) before its first statement, with
\* the ports in busy taken by other processes.  tried lists the bind
\* attempts in order, each with its port and whether it succeeded; loops
\* tells whether receive_loop and process_audio_loop have been started.
NotStarted(variant, busy) ==
    [ variant  |-> variant,
      status   |-> "idle",
      attempts |-> 0,
      port     |-> IF variant = "stt" THEN stt_port ELSE base_port,
      tried    |-> <<>>,
      loops    |-> FALSE,
      busy     |-> busy ]

\* The server of services/stt-server after a start_server that has bound its
\* port and started both loops.
Serving ==
    [ NotStarted("stt", {}) EXCEPT
          !.status = "serving",
          !.tried = << [port |-> stt_port, ok |-> TRUE] >>,
          !.loops = TRUE ]

\* The callers of the one WhisperProcessor.
Callers == {"a", "b", "c", "d"}

\* WhisperProcessor with no call in progress: its lock is free (holder "-"),
\* nobody waits for it, and every caller is outside the two methods.
IdleWhisper ==
    [ holder  |-> "-",
      waiters |-> <<>>,
      op      |-> [c \in Callers |-> "none"],
      at      |-> [c \in Callers |-> "idle"] ]

\* The MAC addresses and the addresses of the ESP32 devices that advertise
\* themselves, and the absence of an address.
Macs == {"aa:01", "aa:02"}

Hosts == {"10.0.1.1", "10.0.1.2"}

NoHost == "-"

\* ESP32VoiceSystem.__init__ and ESP32DiscoveryListener.__init__: nothing
\* found, no client, no task, an empty queue.
IdleEsp ==
    [ found |-> [mac \in Macs |-> NoHost],
      host  |-> [mac \in Macs |-> NoHost],
      task  |-> [mac \in Macs |-> "none"],
      queue |-> <<>> ]

\* ClientEventHandler.__init__ and the defaults of Device: no device is
\* registered yet.  audio_buffer holds the payloads buffered, vad_buffer the
\* number of samples in the deque, age the time since started_at; stops
\* counts the runs of stop_and_process_audio since the last audio-start.
IdleStream ==
    [ is_registered   |-> FALSE,
      is_streaming    |-> FALSE,
      is_recording    |-> FALSE,
      audio_buffer    |-> <<>>,
      silence_counter |-> 0,
      vad_buffer      |-> 0,
      age             |-> 0,
      stops           |-> 0 ]

\* The device ids and the group names of the device manager; a device may
\* have no group (None), and an id may have no device.
DeviceIds == {"d1", "d2"}

GroupNames == {"g1", "g2"}

NoGroup == "None"

NoEntry == "-"

\* DeviceManager.__init__: two empty dictionaries.
EmptyManager ==
    [ devices |-> [id \in DeviceIds |-> NoEntry],
      keys    |-> {},
      groups  |-> [g \in GroupNames |-> {}] ]

\* Zigbee2MQTTController.__init__: no websocket, no task, an empty message
\* queue.  ws is "none" (None), "open" or "closed" (an object whose state is
\* not open); listener is where _listen_for_messages is suspended ("recv" in
\* recv on an open websocket, "raised" in recv on a websocket that has been
\* closed, "sleep" in the sleep of an exception handler);
\* disconnected says that disconnect() has completed and connect() has not
\* been called since.
IdleZigbee ==
    [ ws                |-> "none",
      connected         |-> FALSE,
      listener          |-> "none",
      message_processor |-> "none",
      command_processor |-> "none",
      messages          |-> 0,
      disconnected      |-> FALSE ]

\* WyomingClientWrapper.__init__: no client, not connected, not streaming.
\* starting and stopping count the start_stream and stop_stream calls that
\* are suspended in their write_event; sent is the sequence of audio events
\* written to the server so far.
IdleWyoming ==
    [ client       |-> FALSE,
      is_connected |-> FALSE,
      is_streaming |-> FALSE,
      starting     |-> 0,
      stopping     |-> 0,
      sent         |-> <<>> ]

OtherServicesIdle ==
    /\ esp = IdleEsp
    /\ stream = IdleStream
    /\ dm = EmptyManager
    /\ zigbee = IdleZigbee
    /\ wyoming = IdleWyoming

\* What a call of detect for mic_id did when it computed r: inference failed
\* and the handler of detector.py:146-149 ran, or nothing to tell apart.
DetectEvent(mic_id, r) ==
    IF r.failed THEN Event("detect_failed", mic_id, <<>>) ELSE NoEvent

\* No hand-off in progress.
NoHandoff == [ip |-> NoSource, audio |-> <<>>]

\* The history kept of a LISTENING episode: the bytes of the well-formed
\* datagrams received since the trigger, the hand-offs started in it, the
\* samples written to the VAD buffer and whether a frame was drained from it.
NoEpisode == [recv |-> <<>>, handoffs |-> 0, written |-> <<>>, drained |-> FALSE]

\* seq without its element x.
Remove(seq, x) == SelectSeq(seq, LAMBDA y : y # x)

\* The end of one device's turn in the for loop of process_audio_loop: the
\* next device of the snapshot, or the sleep that ends the sweep.
Advance ==
    /\ sweepList' = Tail(sweepList)
    /\ pc' = IF Tail(sweepList) = <<>> THEN "sleep" ELSE "sweep"
    /\ current_time' = IF Tail(sweepList) = <<>> THEN NoTime ELSE current_time

\* A finally block that leaves the silence counter as it is.
ResetKeepsSilence(d) ==
    [d EXCEPT !.audio_buffer = <<>>,
              !.vad_cursor = 0,
              !.state = "DETECTING",
              !.listening = FALSE,
              !.detection_buffer = <<>>]

\* The finally block of handle_speech_end (main.py:275-282).
ResetDevice(d) ==
    [d EXCEPT !.audio_buffer = <<>>,
              !.vad_cursor = 0,
              !.state = "DETECTING",
              !.listening = FALSE,
              !.silence_counter = 0,
              !.detection_buffer = <<>>]

\* audio_duration >= self.vad.min_audio_length (main.py:229-231), in bytes.
LongEnough(d) == Len(d.audio_buffer) >= MinAudioBytes

\* The history of an episode after handle_speech_end has left device d1: the
\* episode is over when the device is back in state DETECTING.
EndEpisode(ep, d1) == IF d1.state = "DETECTING" THEN NoEpisode ELSE ep

\* handle_speech_end(device) called in the sweep on device ip in state d: a
\* long enough utterance is written to the temporary file and
\* transcriber.process_audio is awaited (the sweep is suspended there); a
\* shorter one is dropped and the device reset at once.
HandleSpeechEnd(ip, d) ==
    IF LongEnough(d)
    THEN /\ devices' = [devices EXCEPT ![ip] = d]
         /\ handoff' = [ip |-> ip, audio |-> d.audio_buffer]
         /\ episode' = [episode EXCEPT ![ip].handoffs = @ + 1, ![ip].drained = TRUE]
         /\ pc' = "transcribe"
         /\ UNCHANGED << sweepList, current_time >>
    ELSE /\ devices' = [devices EXCEPT ![ip] = ResetDevice(d)]
         /\ episode' = [episode EXCEPT ![ip] = EndEpisode(@, ResetDevice(d))]
         /\ Advance
         /\ UNCHANGED handoff

\* receive_loop after the await of the receive (main.py:147-153): the device
\* of ip is looked up or created, and data is added to it.
HandleDatagram(ip, data) ==
    LET d0 == IF ip \in Registered THEN devices[ip] ELSE NewDevice(now)
    IN  /\ order' = IF ip \in Registered THEN order ELSE Append(order, ip)
        /\ devices' = [devices EXCEPT ![ip] = add_audio_data(d0, data, now)]
        /\ episode' = IF d0.state = "LISTENING" /\ ~FromBufferRaises(data)
                      THEN [episode EXCEPT
                               ![ip].recv = @ \o data,
                               ![ip].written = @ \o Downsample(FromBuffer(data))]
                      ELSE episode

\* receive_loop, one datagram (main.py:146-153): data from ip.
Deliver(ip, data) ==
    /\ running
    /\ pc \in {"sleep", "transcribe", "command"}
    /\ nRecv' = nRecv + 1
    /\ HandleDatagram(ip, data)
    /\ triggered' = NoSource
    /\ UNCHANGED << now, running, pc, sweepList, current_time, handoff, nDetect >>
    /\ UNCHANGED detectorVars
    /\ event' = Event("datagram", ip, data)
    /\ UNCHANGED auxVars

\* receive_loop in the specification of the server.
Receive(ip, data) ==
    /\ nRecv < MaxRecv
    /\ Deliver(ip, data)

\* The wall clock advances (while the loops are suspended: a sweep step takes
\* no time on the scale of a tick).
Tick ==
    /\ pc \in {"sleep", "transcribe", "command"}
    /\ now < MaxTime
    /\ now' = now + 1
    /\ triggered' = NoSource
    /\ UNCHANGED << serverVars, detectorVars, nDetect >>
    /\ event' = NoEvent
    /\ UNCHANGED auxVars

\* process_audio_loop, the start of a sweep (main.py:163-168): the time is
\* read once and the devices are snapshot.  A sweep of an empty registry
\* changes nothing.  current_time is a local of the sweep: NoTime between sweeps.
SweepStart ==
    /\ running
    /\ pc = "sleep"
    /\ order # <<>>
    /\ current_time' = now
    /\ sweepList' = order
    /\ pc' = "sweep"
    /\ triggered' = NoSource
    /\ UNCHANGED << now, running, order, devices, handoff, nRecv, nDetect, episode >>
    /\ UNCHANGED detectorVars
    /\ event' = NoEvent
    /\ UNCHANGED auxVars

\* A sweep without the forced-save check.
ForcedFlushNever(d) == FALSE

\* The forced-save condition of main.py:170-172.
ForcedFlush(d) ==
    /\ d.state = "LISTENING"
    /\ d.listening
    /\ current_time - d.last_activity >= max_listening_duration

\* A removal condition that already holds at the timeout.
InactiveAtTimeout(d) == current_time - d.last_activity >= EvictionTimeout

\* The removal condition of main.py:177.
Inactive(d) == current_time - d.last_activity > EvictionTimeout

\* main.py:169-175: the listening of the device has gone on too long.
SweepForced ==
    /\ pc = "sweep"
    /\ LET ip == Head(sweepList)
       IN  /\ ForcedFlush(devices[ip])
           /\ HandleSpeechEnd(ip, devices[ip])
    /\ triggered' = NoSource
    /\ UNCHANGED << now, running, order, nRecv, nDetect >>
    /\ UNCHANGED detectorVars
    /\ event' = NoEvent
    /\ UNCHANGED auxVars

\* A removal that also forgets the detector state of the source.
SweepEvictForgetsDetector ==
    /\ pc = "sweep"
    /\ LET ip == Head(sweepList)
       IN  /\ ~ForcedFlush(devices[ip])
           /\ Inactive(devices[ip])
           /\ order' = Remove(order, ip)
           /\ devices' = [devices EXCEPT ![ip] = NoDevice]
           /\ episode' = [episode EXCEPT ![ip] = NoEpisode]
           /\ mic_states' = [mic_states EXCEPT ![ip] = create_empty]
           /\ micKnown' = micKnown \ {ip}
    /\ Advance
    /\ triggered' = NoSource
    /\ UNCHANGED << now, running, handoff, nRecv, nDetect, lastTrigger, windows >>
    /\ event' = NoEvent
    /\ UNCHANGED auxVars

\* main.py:176-180: the device is inactive and leaves the registry.
SweepEvict ==
    /\ pc = "sweep"
    /\ LET ip == Head(sweepList)
       IN  /\ ~ForcedFlush(devices[ip])
           /\ Inactive(devices[ip])
           /\ order' = Remove(order, ip)
           /\ devices' = [devices EXCEPT ![ip] = NoDevice]
           /\ episode' = [episode EXCEPT ![ip] = NoEpisode]
    /\ Advance
    /\ triggered' = NoSource
    /\ UNCHANGED << now, running, handoff, nRecv, nDetect >>
    /\ UNCHANGED detectorVars
    /\ event' = NoEvent
    /\ UNCHANGED auxVars

\* A wake transition that sets the state and leaves the listening flag.
StartListeningStateOnly(d, t) ==
    [d EXCEPT !.state = "LISTENING",
              !.vad_cursor = 0,
              !.listening_start_time = t,
              !.detection_buffer = <<>>]

\* A wake transition that keeps the detection window.
StartListeningKeepsWindow(d, t) ==
    [d EXCEPT !.state = "LISTENING",
              !.listening = TRUE,
              !.vad_cursor = 0,
              !.listening_start_time = t]

\* The device after a wake word (main.py:187-196); handle_wake_word is a
\* coroutine that does nothing and does not suspend.
StartListening(d, t) ==
    [d EXCEPT !.state = "LISTENING",
              !.listening = TRUE,
              !.vad_cursor = 0,
              !.listening_start_time = t,
              !.detection_buffer = <<>>]

\* A sweep that starts listening whatever detect returned.
AfterDetectAlways(d, r, t) == StartListening(d, t)

\* The branch of the sweep a device takes when detect returned r (main.py:186).
AfterDetect(d, r, t) == IF r.result THEN StartListening(d, t) ELSE d

\* main.py:182-196: wake-word detection on a device in state DETECTING.
SweepDetect ==
    /\ pc = "sweep"
    /\ LET ip == Head(sweepList)
           d == devices[ip]
       IN  /\ ~ForcedFlush(d)
           /\ ~Inactive(d)
           /\ d.state = "DETECTING" /\ ~d.listening
           /\ IF Len(d.detection_buffer) >= DetectionMinChunks
              THEN \E outcome \in Outcomes :
                     LET audio_data == Concat(d.detection_buffer)
                         r == detect(mic_states[ip], Downsample(audio_data), now, outcome)
                     IN  /\ DetectorCall(ip, r)
                         /\ devices' = [devices EXCEPT ![ip] = AfterDetect(d, r, now)]
                         /\ triggered' = IF r.result THEN ip ELSE NoSource
                         /\ event' = DetectEvent(ip, r)
              ELSE /\ triggered' = NoSource
                   /\ event' = NoEvent
                   /\ UNCHANGED << devices, micKnown, mic_states >>
    /\ Advance
    /\ UNCHANGED << lastTrigger, windows >>
    /\ UNCHANGED << now, running, order, handoff, nRecv, nDetect, episode >>
    /\ UNCHANGED auxVars

\* The silence counter after a frame that scored speech_prob (main.py:210-217).
CountSilence(d, speech_prob) ==
    IF speech_prob < vad_threshold
    THEN [d EXCEPT !.silence_counter = @ + 1]
    ELSE [d EXCEPT !.silence_counter = 0]

\* The frame taken from the front of the VAD buffer (main.py:202-207).
DrainFrame(d) ==
    [d EXCEPT !.vad_buffer = RollLeft(@, chunk_size),
              !.vad_cursor = @ - chunk_size]

\* What the VAD model does with a frame: it answers a score, or it raises.
ScorerError == 0 - 2
VadOutcomes == Scores \cup {ScorerError}

\* A scorer that answers speech when the model raises.
process_chunk_speech_on_error(outcome) == IF outcome = ScorerError THEN 9 ELSE outcome

\* VADProcessor.process_chunk (vad2.py:49-81): the speech probability of the
\* model, or 0.0 from the handler of lines 79-81 when the model raises.
process_chunk(outcome) == IF outcome = ScorerError THEN 0 ELSE outcome

\* One turn of the while loop of main.py:201-217 on device ip: the frame at
\* the front of the VAD buffer is scored and taken out.
VadLoop(ip) ==
    LET d == devices[ip]
    IN  IF d.vad_cursor >= chunk_size
        THEN \E outcome \in VadOutcomes :
               LET speech_prob == process_chunk(outcome)
                   d2 == CountSilence(DrainFrame(d), speech_prob)
               IN  /\ event' = IF outcome = ScorerError
                                THEN Event("vad_failed", ip, <<>>)
                                ELSE Event("vad_frame", ip, << speech_prob >>)
                   /\ IF speech_prob < vad_threshold
                         /\ d2.silence_counter >= silence_threshold
                      THEN HandleSpeechEnd(ip, d2)
                      ELSE /\ devices' = [devices EXCEPT ![ip] = d2]
                           /\ episode' = [episode EXCEPT ![ip].drained = TRUE]
                           /\ pc' = "vad"
                           /\ UNCHANGED << sweepList, current_time, handoff >>
        ELSE /\ Advance
             /\ event' = NoEvent
             /\ UNCHANGED << devices, handoff, episode >>

\* main.py:198-217: VAD processing of a device in state LISTENING, from the
\* top of the for body.
SweepListen ==
    /\ pc = "sweep"
    /\ LET d == devices[Head(sweepList)]
       IN  /\ ~ForcedFlush(d)
           /\ ~Inactive(d)
           /\ ~(d.state = "DETECTING" /\ ~d.listening)
           /\ d.state = "LISTENING"
    /\ VadLoop(Head(sweepList))
    /\ triggered' = NoSource
    /\ UNCHANGED << now, running, order, nRecv, nDetect >>
    /\ UNCHANGED detectorVars
    /\ UNCHANGED auxVars

\* The while loop of main.py:201 again, after a frame that did not end the speech.
SweepVad ==
    /\ pc = "vad"
    /\ VadLoop(Head(sweepList))
    /\ triggered' = NoSource
    /\ UNCHANGED << now, running, order, nRecv, nDetect >>
    /\ UNCHANGED detectorVars
    /\ UNCHANGED auxVars

\* handle_speech_end returning without a finally block: the device is left
\* as it is.
FinishWithoutReset ==
    /\ handoff' = NoHandoff
    /\ Advance
    /\ UNCHANGED << devices, episode >>

\* handle_speech_end leaves through its finally block and the sweep goes on
\* with the next device (continue at main.py:175, break at main.py:215).
FinishSpeechEnd ==
    /\ devices' = [devices EXCEPT ![handoff.ip] = ResetDevice(@)]
    /\ episode' = [episode EXCEPT ![handoff.ip] = EndEpisode(@, ResetDevice(devices[handoff.ip]))]
    /\ handoff' = NoHandoff
    /\ Advance

\* transcriber.process_audio returns and the return of main.py:254 leaves
\* handle_speech_end without its finally block.
TranscribeDoneNoFinally(transcript) ==
    /\ pc = "transcribe"
    /\ IF transcript
       THEN /\ pc' = "command"
            /\ UNCHANGED << devices, episode, handoff, sweepList, current_time >>
       ELSE FinishWithoutReset
    /\ triggered' = NoSource
    /\ UNCHANGED << now, running, order, nRecv, nDetect >>
    /\ UNCHANGED detectorVars
    /\ event' = IF transcript THEN Event("transcript", handoff.ip, <<>>)
                            ELSE Event("no_text", handoff.ip, <<>>)
    /\ UNCHANGED auxVars

\* transcriber.process_audio returns (main.py:247-254): a transcript, or
\* nothing (process_audio returns None on any failure of its own).
TranscribeDone(transcript) ==
    /\ pc = "transcribe"
    /\ IF transcript
       THEN /\ pc' = "command"
            /\ UNCHANGED << devices, episode, handoff, sweepList, current_time >>
       ELSE FinishSpeechEnd
    /\ triggered' = NoSource
    /\ UNCHANGED << now, running, order, nRecv, nDetect >>
    /\ UNCHANGED detectorVars
    /\ event' = IF transcript THEN Event("transcript", handoff.ip, <<>>)
                            ELSE Event("no_text", handoff.ip, <<>>)
    /\ UNCHANGED auxVars

\* smart_home.process_voice_command returns (ok) or raises (main.py:260-273).
CommandDone(ok) ==
    /\ pc = "command"
    /\ FinishSpeechEnd
    /\ triggered' = NoSource
    /\ UNCHANGED << now, running, order, nRecv, nDetect >>
    /\ UNCHANGED detectorVars
    /\ event' = IF ok THEN Event("command_done", handoff.ip, <<>>)
                     ELSE Event("command_failed", handoff.ip, <<>>)
    /\ UNCHANGED auxVars

\* An exception leaves the for body of the device the sweep is at, raised by
\* the detection or the VAD branch (main.py:182-217; the two checks before
\* them only compare fields).  The one handler of process_audio_loop
\* (main.py:222-224) is outside the for loop, so the sweep ends there and the
\* loop backs off: it sleeps, as it does after a whole sweep.
SweepRaise ==
    /\ pc = "sweep"
    /\ ~ForcedFlush(devices[Head(sweepList)])
    /\ ~Inactive(devices[Head(sweepList)])
    /\ sweepList' = <<>>
    /\ pc' = "sleep"
    /\ current_time' = NoTime
    /\ triggered' = NoSource
    /\ UNCHANGED << now, running, order, devices, handoff, nRecv, nDetect, episode >>
    /\ UNCHANGED detectorVars
    /\ event' = NoEvent
    /\ UNCHANGED auxVars

\* ---------------------------------------------------------- specifications
Init ==
    /\ now = StartTime
    /\ running = TRUE
    /\ order = <<>>
    /\ devices = [ip \in Sources |-> NoDevice]
    /\ micKnown = {}
    /\ mic_states = [ip \in Sources |-> create_empty]
    /\ pc = "sleep"
    /\ sweepList = <<>>
    /\ current_time = NoTime
    /\ handoff = NoHandoff
    /\ nRecv = 0
    /\ nDetect = 0
    /\ triggered = NoSource
    /\ episode = [ip \in Sources |-> NoEpisode]
    /\ lastTrigger = [ip \in Sources |-> NoTime]
    /\ windows = [ip \in Sources |-> <<>>]
    /\ event = NoEvent
    /\ saved = {}
    /\ pending = NoDatagram
    /\ boot = Serving
    /\ whisper = IdleWhisper
    /\ OtherServicesIdle

Next ==
    \/ \E ip \in Sources, data \in Payloads : Receive(ip, data)
    \/ Tick
    \/ SweepStart
    \/ SweepForced
    \/ SweepEvict
    \/ SweepDetect
    \/ SweepListen
    \/ SweepVad
    \/ \E transcript \in BOOLEAN : TranscribeDone(transcript)
    \/ \E ok \in BOOLEAN : CommandDone(ok)
    \/ SweepRaise

Spec == Init /\ [][Next]_vars

\* The detector alone: detect is called with any chunk for any microphone,
\* as the callers of client/ do, and the clock advances.
DetectChunks ==
    { <<>>, <<1>>, <<4, 5, 6, 7>>, <<1, 2, 3, 4, 5>>, <<8, NotFinite>> }

DetectDirect(mic_id, audio_chunk, outcome) ==
    /\ nDetect < MaxDetectCalls
    /\ nDetect' = nDetect + 1
    /\ LET r == detect(mic_states[mic_id], audio_chunk, now, outcome)
       IN  /\ DetectorCall(mic_id, r)
           /\ DetectorHistory(mic_id, outcome, r)
           /\ triggered' = IF r.result THEN mic_id ELSE NoSource
           /\ event' = IF ~validate_audio(audio_chunk)
                       THEN Event("detect_rejected", mic_id, <<>>)
                       ELSE IF r.failed
                       THEN Event("detect_failed", mic_id, audio_chunk)
                       ELSE IF r.inferred
                       THEN Event("detect_scored", mic_id, audio_chunk)
                       ELSE Event("detect_buffered", mic_id, audio_chunk)
    /\ UNCHANGED << now, serverVars >>
    /\ UNCHANGED auxVars

NextDetector ==
    \/ \E mic_id \in Sources, audio_chunk \in DetectChunks, outcome \in Outcomes :
          DetectDirect(mic_id, audio_chunk, outcome)
    \/ Tick

SpecDetector == Init /\ [][NextDetector]_vars

\* The VAD buffer alone: a device that has just heard the wake word receives
\* datagrams while no sweep runs (process_audio_loop is suspended in the
\* hand-off of another device, or asleep).
RingSource == "10.0.0.1"

RingPayloads == { <<1, 0, 2, 0>>, <<3, 0, 4, 0, 5, 0>>, <<6, 0, 7, 0, 8, 0, 9, 0>> }

InitRing ==
    /\ now = StartTime
    /\ running = TRUE
    /\ order = << RingSource >>
    /\ devices = [ip \in Sources |->
                     IF ip = RingSource
                     THEN StartListening(NewDevice(StartTime), StartTime)
                     ELSE NoDevice]
    /\ micKnown = {RingSource}
    /\ mic_states = [ip \in Sources |->
                        IF ip = RingSource
                        THEN reset_mic_state(create_empty, StartTime)
                        ELSE create_empty]
    /\ pc = "sleep"
    /\ sweepList = <<>>
    /\ current_time = NoTime
    /\ handoff = NoHandoff
    /\ nRecv = 0
    /\ nDetect = 0
    /\ triggered = NoSource
    /\ episode = [ip \in Sources |-> NoEpisode]
    /\ lastTrigger = [ip \in Sources |-> NoTime]
    /\ windows = [ip \in Sources |-> <<>>]
    /\ event = NoEvent
    /\ saved = {}
    /\ pending = NoDatagram
    /\ boot = Serving
    /\ whisper = IdleWhisper
    /\ OtherServicesIdle

RingReceive(data) ==
    /\ nRecv < MaxRingWrites
    /\ Deliver(RingSource, data)

NextRing ==
    \/ \E data \in RingPayloads : RingReceive(data)
    \/ Tick

SpecRing == InitRing /\ [][NextRing]_vars


\* ------------------------------------------- the server of client/udp_server.py
\* AudioDevice.__init__ of client/udp_server.py at time t.  The phase of a
\* session is its flag listening; vad_buffer is a list, consumed from the
\* front.  is_active and listening_start_time are set here and used nowhere.
ClientDevice(t) ==
    [ listening        |-> FALSE,
      audio_buffer     |-> <<>>,
      silence_counter  |-> 0,
      vad_buffer       |-> <<>>,
      detection_buffer |-> <<>>,
      last_activity    |-> t ]

\* The place of an ip that is not in self.devices.
NoClientDevice == ClientDevice(0)

\* AudioDevice.add_audio_data of client/udp_server.py at time t: the window
\* is appended to in either phase.  np.frombuffer raises on a payload that is
\* not a whole number of samples, after the utterance buffer of a listening
\* device has been extended; receive_loop logs the exception.
client_add_audio_data(d, data, t) ==
    LET d1 == IF d.listening THEN [d EXCEPT !.audio_buffer = @ \o data] ELSE d
    IN  IF FromBufferRaises(data) THEN d1
        ELSE LET audio_np == FromBuffer(data)
                 d2 == IF d.listening
                       THEN [d1 EXCEPT !.vad_buffer = @ \o Downsample(audio_np)]
                       ELSE d1
             IN  [d2 EXCEPT
                     !.detection_buffer = DequeAppend(@, audio_clip(audio_np), DetectionMaxLen),
                     !.last_activity = t]

\* _resample_audio: scipy.signal.resample to half the number of samples.  The
\* detector's control flow reads the length only; the values are taken to be
\* those of every other sample.
resample_audio(audio_data) == [i \in 1..(Len(audio_data) \div 2) |-> audio_data[2 * i - 1]]

\* The reset at the end of the speech (client/udp_server.py:193-197).
ClientReset(d) ==
    [d EXCEPT !.listening = FALSE,
              !.audio_buffer = <<>>,
              !.vad_buffer = <<>>,
              !.silence_counter = 0]

\* receive_loop of client/udp_server.py, one datagram.
ClientReceive(ip, data) ==
    /\ running
    /\ pc = "sleep"
    /\ nRecv < MaxClientRecv
    /\ nRecv' = nRecv + 1
    /\ LET d0 == IF ip \in Registered THEN devices[ip] ELSE ClientDevice(now)
       IN  /\ order' = IF ip \in Registered THEN order ELSE Append(order, ip)
           /\ devices' = [devices EXCEPT ![ip] = client_add_audio_data(d0, data, now)]
    /\ triggered' = NoSource
    /\ UNCHANGED << now, running, pc, sweepList, current_time, handoff, nDetect, episode >>
    /\ UNCHANGED detectorVars
    /\ event' = NoEvent
    /\ UNCHANGED auxVars

\* process_audio_loop of client/udp_server.py, the start of a sweep over
\* self.devices.values(); nothing in the sweep suspends.
ClientSweepStart ==
    /\ running
    /\ pc = "sleep"
    /\ order # <<>>
    /\ sweepList' = order
    /\ pc' = "sweep"
    /\ triggered' = NoSource
    /\ UNCHANGED << now, running, order, devices, current_time, handoff, nRecv,
                    nDetect, episode >>
    /\ UNCHANGED detectorVars
    /\ event' = NoEvent
    /\ UNCHANGED auxVars

\* The end of one device's turn in that sweep.
ClientAdvance ==
    /\ sweepList' = Tail(sweepList)
    /\ pc' = IF Tail(sweepList) = <<>> THEN "sleep" ELSE "sweep"

\* One turn of the while loop of client/udp_server.py:179-199 on device ip, and
\* after the loop the clearing of the window (line 203).  save_audio writes
\* the utterance to a file: handoff records what was saved.
ClientVadLoop(ip) ==
    LET d == devices[ip]
    IN  IF d.listening /\ Len(d.vad_buffer) >= chunk_size
        THEN \E speech_prob \in Scores :
               LET d1 == [d EXCEPT !.vad_buffer = SubSeq(@, chunk_size + 1, Len(@))]
                   silent == speech_prob < client_vad_threshold
                   d2 == [d1 EXCEPT !.silence_counter = IF silent THEN @ + 1 ELSE 0]
                   ends == silent /\ d2.silence_counter >= silence_threshold
               IN  /\ devices' = [devices EXCEPT ![ip] = IF ends THEN ClientReset(d2) ELSE d2]
                   /\ handoff' = IF ends /\ LongEnough(d2)
                                 THEN [ip |-> ip, audio |-> d2.audio_buffer]
                                 ELSE handoff
                   /\ pc' = "vad"
                   /\ UNCHANGED sweepList
        ELSE /\ devices' = [devices EXCEPT ![ip].detection_buffer = <<>>]
             /\ ClientAdvance
             /\ UNCHANGED handoff

\* client/udp_server.py:171-178: the turn of a device in the sweep, up to the
\* VAD loop.  A device with no samples in its window is passed over.
ClientSweepDetect ==
    /\ pc = "sweep"
    /\ LET ip == Head(sweepList)
           d == devices[ip]
           audio_data == Concat(d.detection_buffer)
       IN  IF Len(audio_data) > 0
           THEN \E outcome \in Outcomes :
                  LET r == detect(mic_states[ip], resample_audio(audio_data), now, outcome)
                  IN  /\ DetectorCall(ip, r)
                      /\ devices' = [devices EXCEPT ![ip].listening = @ \/ r.result]
                      /\ triggered' = IF r.result THEN ip ELSE NoSource
                      /\ event' = DetectEvent(ip, r)
                      /\ pc' = "vad"
                      /\ UNCHANGED << sweepList, handoff >>
           ELSE /\ ClientAdvance
                /\ triggered' = NoSource
                /\ event' = NoEvent
                /\ UNCHANGED << devices, handoff, micKnown, mic_states >>
    /\ UNCHANGED << lastTrigger, windows >>
    /\ UNCHANGED << now, running, order, current_time, nRecv, nDetect, episode >>
    /\ UNCHANGED auxVars

\* The rest of the turn of that device.
ClientSweepVad ==
    /\ pc = "vad"
    /\ ClientVadLoop(Head(sweepList))
    /\ triggered' = NoSource
    /\ UNCHANGED << now, running, order, current_time, nRecv, nDetect, episode >>
    /\ UNCHANGED detectorVars
    /\ event' = NoEvent
    /\ UNCHANGED auxVars

\* save_audio_files (client/udp_server.py:216-226): save_audio writes a WAV
\* file for every device whose utterance buffer is not empty.
save_audio_files ==
    { [ip |-> ip, audio |-> devices[ip].audio_buffer] :
        ip \in { i \in Registered : Len(devices[i].audio_buffer) # 0 } }

\* stop() of client/udp_server.py (lines 228-250), called while the loops are
\* suspended: the flag is cleared, the utterance buffers are saved, the
\* socket is closed and both tasks are cancelled.
ClientStop ==
    /\ running
    /\ pc = "sleep"
    /\ running' = FALSE
    /\ saved' = save_audio_files
    /\ triggered' = NoSource
    /\ event' = Event("stop", NoSource, <<>>)
    /\ UNCHANGED << now, order, devices, pc, sweepList, current_time, handoff,
                    nRecv, nDetect, episode, pending, boot, whisper, otherVars >>
    /\ UNCHANGED detectorVars

InitClient ==
    /\ now = StartTime
    /\ running = TRUE
    /\ order = <<>>
    /\ devices = [ip \in Sources |-> NoClientDevice]
    /\ micKnown = {}
    /\ mic_states = [ip \in Sources |-> create_empty]
    /\ pc = "sleep"
    /\ sweepList = <<>>
    /\ current_time = NoTime
    /\ handoff = NoHandoff
    /\ nRecv = 0
    /\ nDetect = 0
    /\ triggered = NoSource
    /\ episode = [ip \in Sources |-> NoEpisode]
    /\ lastTrigger = [ip \in Sources |-> NoTime]
    /\ windows = [ip \in Sources |-> <<>>]
    /\ event = NoEvent
    /\ saved = {}
    /\ pending = NoDatagram
    /\ boot = Serving
    /\ whisper = IdleWhisper
    /\ OtherServicesIdle

NextClient ==
    \/ \E ip \in Sources, data \in Payloads : ClientReceive(ip, data)
    \/ Tick
    \/ ClientSweepStart
    \/ ClientSweepDetect
    \/ ClientSweepVad
    \/ ClientStop

SpecClient == InitClient /\ [][NextClient]_vars

\* ------------------------------------------------- two sessions, one hand-off
\* The server at the moment a second device has joined while a first one is
\* listening: Speaker has triggered the wake word and sent two datagrams of
\* speech since, Bystander has sent its first datagram.
Speaker == "10.0.0.1"

Bystander == "10.0.0.2"

Speech == <<3, 0, 4, 0, 5, 0, 6, 0>>

InitHandoff ==
    /\ now = StartTime
    /\ running = TRUE
    /\ order = << Speaker, Bystander >>
    /\ devices = [ip \in Sources |->
                     IF ip = Speaker
                     THEN add_audio_data(
                              add_audio_data(
                                  StartListening(NewDevice(StartTime), StartTime),
                                  Speech, StartTime),
                              Speech, StartTime)
                     ELSE add_audio_data(NewDevice(StartTime), Speech, StartTime)]
    /\ micKnown = {Speaker}
    /\ mic_states = [ip \in Sources |->
                        IF ip = Speaker
                        THEN reset_mic_state(create_empty, StartTime)
                        ELSE create_empty]
    /\ pc = "sleep"
    /\ sweepList = <<>>
    /\ current_time = NoTime
    /\ handoff = NoHandoff
    /\ nRecv = 0
    /\ nDetect = 0
    /\ triggered = NoSource
    /\ episode = [ip \in Sources |->
                     IF ip = Speaker
                     THEN [NoEpisode EXCEPT
                              !.recv = Speech \o Speech,
                              !.written = Downsample(FromBuffer(Speech))
                                          \o Downsample(FromBuffer(Speech))]
                     ELSE NoEpisode]
    /\ lastTrigger = [ip \in Sources |-> NoTime]
    /\ windows = [ip \in Sources |-> <<>>]
    /\ event = NoEvent
    /\ saved = {}
    /\ pending = NoDatagram
    /\ boot = Serving
    /\ whisper = IdleWhisper
    /\ OtherServicesIdle

\* What the devices send: the payloads of the server's specification and a
\* second, shorter piece of speech.
HandoffPayloads == Payloads \cup { <<1, 0, 2, 0>> }

HandoffReceive(ip, data) ==
    /\ nRecv < MaxHandoffRecv
    /\ Deliver(ip, data)

NextHandoff ==
    \/ \E ip \in Sources, data \in HandoffPayloads : HandoffReceive(ip, data)
    \/ Tick
    \/ SweepStart
    \/ SweepForced
    \/ SweepEvict
    \/ SweepDetect
    \/ SweepListen
    \/ SweepVad
    \/ \E transcript \in BOOLEAN : TranscribeDone(transcript)
    \/ \E ok \in BOOLEAN : CommandDone(ok)
    \/ SweepRaise

SpecHandoff == InitHandoff /\ [][NextHandoff]_vars

\* ------------------------------------------------------------ safety valve
\* The detector alone, from the state in which the inference for Speaker
\* raised at StartTime and then scored three windows above the threshold
\* inside the cooldown that the reset started.
Loud == <<1, 2, 3, 4, 5>>

BlockedMic(n) ==
    LET failed == detect(create_empty, Loud, StartTime, InferenceError)
        first == detect(failed.mic, Loud, StartTime, 9)
        second == detect(first.mic, Loud, StartTime, 9)
        third == detect(second.mic, Loud, StartTime, 9)
    IN  << failed, first, second, third >>[n + 1]

InitValve ==
    /\ now = StartTime
    /\ running = TRUE
    /\ order = <<>>
    /\ devices = [ip \in Sources |-> NoDevice]
    /\ micKnown = {Speaker}
    /\ mic_states = [ip \in Sources |->
                        IF ip = Speaker THEN BlockedMic(3).mic ELSE create_empty]
    /\ pc = "sleep"
    /\ sweepList = <<>>
    /\ current_time = NoTime
    /\ handoff = NoHandoff
    /\ nRecv = 0
    /\ nDetect = MaxDetectCalls - 3
    /\ triggered = NoSource
    /\ episode = [ip \in Sources |-> NoEpisode]
    /\ lastTrigger = [ip \in Sources |-> NoTime]
    /\ windows = [ip \in Sources |->
                     IF ip = Speaker
                     THEN [n \in 1..3 |->
                              Window(BlockedMic(n - 1).mic, StartTime, 9, BlockedMic(n))]
                     ELSE <<>>]
    /\ event = Event("detect_scored", Speaker, Loud)
    /\ saved = {}
    /\ pending = NoDatagram
    /\ boot = Serving
    /\ whisper = IdleWhisper
    /\ OtherServicesIdle

SpecValve == InitValve /\ [][NextDetector]_vars

\* ------------------------------------------------------- stopping the server
\* receive_loop with the receive told apart from what follows it: the
\* executor thread reads a datagram from the socket (main.py:143-146) while
\* receive_loop is suspended in the await, and receive_loop handles it when
\* the event loop resumes it.  stop() can run in between.

\* The executor thread has read data from ip; the socket is open.
SocketRecv(ip, data) ==
    /\ running
    /\ pending = NoDatagram
    /\ nRecv < MaxStopRecv
    /\ nRecv' = nRecv + 1
    /\ pending' = [ip |-> ip, data |-> data]
    /\ triggered' = NoSource
    /\ event' = NoEvent
    /\ UNCHANGED << now, running, order, devices, pc, sweepList, current_time,
                    handoff, nDetect, episode, saved, boot, whisper, otherVars >>
    /\ UNCHANGED detectorVars

\* receive_loop resumes with the datagram read (main.py:146-153); the flag
\* _running is looked at again only at the top of the while loop.
ResumeReceive ==
    /\ pending # NoDatagram
    /\ pc \in {"sleep", "transcribe", "command"}
    /\ HandleDatagram(pending.ip, pending.data)
    /\ pending' = NoDatagram
    /\ triggered' = NoSource
    /\ event' = Event("datagram", pending.ip, pending.data)
    /\ UNCHANGED << now, running, pc, sweepList, current_time, handoff, nRecv,
                    nDetect, saved, boot, whisper, otherVars >>
    /\ UNCHANGED detectorVars

\* A stop() that forgets the devices as well.
StopClearsRegistry ==
    /\ running
    /\ pc \in {"sleep", "transcribe", "command"}
    /\ running' = FALSE
    /\ order' = <<>>
    /\ triggered' = NoSource
    /\ event' = Event("stop", NoSource, <<>>)
    /\ UNCHANGED << now, devices, pc, sweepList, current_time, handoff,
                    nRecv, nDetect, episode >>
    /\ UNCHANGED detectorVars
    /\ UNCHANGED auxVars

\* stop() of services/stt-server/main.py (lines 291-299), called while both
\* loops are suspended: the flag is cleared and the socket closed.  No task
\* is cancelled and nothing is written.
Stop ==
    /\ running
    /\ pc \in {"sleep", "transcribe", "command"}
    /\ running' = FALSE
    /\ triggered' = NoSource
    /\ event' = Event("stop", NoSource, <<>>)
    /\ UNCHANGED << now, order, devices, pc, sweepList, current_time, handoff,
                    nRecv, nDetect, episode >>
    /\ UNCHANGED detectorVars
    /\ UNCHANGED auxVars

NextStop ==
    \/ \E ip \in Sources, data \in Payloads : SocketRecv(ip, data)
    \/ ResumeReceive
    \/ Stop
    \/ Tick
    \/ SweepStart
    \/ SweepForced
    \/ SweepEvict
    \/ SweepDetect
    \/ SweepListen
    \/ SweepVad
    \/ \E transcript \in BOOLEAN : TranscribeDone(transcript)
    \/ \E ok \in BOOLEAN : CommandDone(ok)
    \/ SweepRaise

SpecStop == InitHandoff /\ [][NextStop]_vars

\* ------------------------------------------------------- starting the server
\* The ports start_server of the client can try, and the one after them.
Ports == base_port .. (base_port + max_retries)

\* A start_server that tries the base port again and again.
current_port_fixed(b) == base_port

\* current_port = self.base_port + self.connection_attempts
\* (client/udp_server.py:109).
current_port(b) == base_port + b.attempts

\* One turn of the while loop of start_server of client/udp_server.py (lines
\* 107-131): bind succeeds on a free port, the loops are started as tasks and
\* the port is returned; on a port in use bind raises OSError, the attempt is
\* counted and start_server sleeps a second or, after max_retries attempts,
\* raises RuntimeError.
ClientBindAttempt ==
    /\ boot.variant = "client"
    /\ boot.status \in {"idle", "sleeping"}
    /\ boot.attempts < max_retries
    /\ LET p == current_port(boot)
           ok == p \notin boot.busy
           b1 == [boot EXCEPT !.tried = Append(@, [port |-> p, ok |-> ok])]
       IN  IF ok
           THEN /\ running' = TRUE
                /\ boot' = [b1 EXCEPT !.port = p, !.loops = TRUE, !.status = "serving"]
           ELSE /\ running' = running
                /\ boot' = [b1 EXCEPT
                               !.attempts = @ + 1,
                               !.status = IF boot.attempts + 1 >= max_retries
                                          THEN "failed" ELSE "sleeping"]
    /\ triggered' = NoSource
    /\ event' = NoEvent
    /\ UNCHANGED << now, order, devices, pc, sweepList, current_time, handoff,
                    nRecv, nDetect, episode, saved, pending, whisper, otherVars >>
    /\ UNCHANGED detectorVars

\* start_server of services/stt-server/main.py up to its first await (lines
\* 114-123): on a free port it sets _running and awaits the Zigbee
\* connection; when bind raises, the handler of lines 132-135 calls stop()
\* and raises again.
SttBind ==
    /\ boot.variant = "stt"
    /\ boot.status = "idle"
    /\ LET p == boot.port
           ok == p \notin boot.busy
           b1 == [boot EXCEPT !.tried = Append(@, [port |-> p, ok |-> ok])]
       IN  IF ok
           THEN /\ running' = TRUE
                /\ boot' = [b1 EXCEPT !.status = "connecting"]
           ELSE /\ running' = FALSE
                /\ boot' = [b1 EXCEPT !.status = "failed"]
    /\ triggered' = NoSource
    /\ event' = NoEvent
    /\ UNCHANGED << now, order, devices, pc, sweepList, current_time, handoff,
                    nRecv, nDetect, episode, saved, pending, whisper, otherVars >>
    /\ UNCHANGED detectorVars

\* zigbee.connect() returns (main.py:123-131): connected, and both loops are
\* started by asyncio.gather, or it raises and the handler stops the server.
SttConnect(connected) ==
    /\ boot.variant = "stt"
    /\ boot.status = "connecting"
    /\ IF connected
       THEN /\ running' = running
            /\ boot' = [boot EXCEPT !.loops = TRUE, !.status = "serving"]
       ELSE /\ running' = FALSE
            /\ boot' = [boot EXCEPT !.status = "failed"]
    /\ triggered' = NoSource
    /\ event' = NoEvent
    /\ UNCHANGED << now, order, devices, pc, sweepList, current_time, handoff,
                    nRecv, nDetect, episode, saved, pending, whisper, otherVars >>
    /\ UNCHANGED detectorVars

\* Another process takes or releases port p, which is not a port the server
\* has bound itself.
PortChange(p) ==
    /\ boot.status \in {"connecting", "serving"} => p # boot.port
    /\ boot' = [boot EXCEPT !.busy = IF p \in @ THEN @ \ {p} ELSE @ \cup {p}]
    /\ triggered' = NoSource
    /\ event' = NoEvent
    /\ UNCHANGED << now, running, order, devices, pc, sweepList, current_time,
                    handoff, nRecv, nDetect, episode, saved, pending, whisper, otherVars >>
    /\ UNCHANGED detectorVars

\* A server that has been constructed and not started: _running is False
\* and there are no devices.
InitStart ==
    /\ now = StartTime
    /\ running = FALSE
    /\ order = <<>>
    /\ devices = [ip \in Sources |-> NoDevice]
    /\ micKnown = {}
    /\ mic_states = [ip \in Sources |-> create_empty]
    /\ pc = "sleep"
    /\ sweepList = <<>>
    /\ current_time = NoTime
    /\ handoff = NoHandoff
    /\ nRecv = 0
    /\ nDetect = 0
    /\ triggered = NoSource
    /\ episode = [ip \in Sources |-> NoEpisode]
    /\ lastTrigger = [ip \in Sources |-> NoTime]
    /\ windows = [ip \in Sources |-> <<>>]
    /\ event = NoEvent
    /\ saved = {}
    /\ pending = NoDatagram
    /\ boot \in { NotStarted(variant, busy) :
                    variant \in {"stt", "client"}, busy \in SUBSET Ports }
    /\ whisper = IdleWhisper
    /\ OtherServicesIdle

NextStart ==
    \/ ClientBindAttempt
    \/ SttBind
    \/ \E connected \in BOOLEAN : SttConnect(connected)
    \/ \E p \in Ports : PortChange(p)

SpecStart == InitStart /\ [][NextStart]_vars

\* ---------------------------------------------------------- WhisperProcessor
\* The coroutines that call the one WhisperProcessor (transcribe.py).  A
\* caller is idle, waiting for self.lock, or suspended in run_in_executor
\* while a thread runs self.model.transcribe for it ("model").

\* Everything but the WhisperProcessor stays as it is.
WhisperOnly ==
    /\ triggered' = NoSource
    /\ event' = NoEvent
    /\ UNCHANGED << now, running, order, devices, pc, sweepList, current_time,
                    handoff, nRecv, nDetect, episode, saved, pending, boot, otherVars >>
    /\ UNCHANGED detectorVars

\* asyncio.Lock.acquire does not suspend: the lock is free and nobody is
\* queued for it.
LockIsFree == whisper.holder = "-" /\ whisper.waiters = <<>>

\* Caller c calls process_audio (transcribe.py:62-78): async with self.lock,
\* then the transcription in the executor.
CallProcessAudio(c) ==
    /\ whisper.at[c] = "idle"
    /\ whisper' = IF LockIsFree
                  THEN [whisper EXCEPT !.op[c] = "process_audio",
                                       !.holder = c,
                                       !.at[c] = "model"]
                  ELSE [whisper EXCEPT !.op[c] = "process_audio",
                                       !.waiters = Append(@, c),
                                       !.at[c] = "waiting"]
    /\ WhisperOnly

\* The lock has been released and c is the first in its queue: c takes the
\* lock and starts its transcription.
AcquireLock(c) ==
    /\ whisper.at[c] = "waiting"
    /\ whisper.holder = "-"
    /\ Head(whisper.waiters) = c
    /\ whisper' = [whisper EXCEPT !.holder = c,
                                  !.waiters = Tail(@),
                                  !.at[c] = "model"]
    /\ WhisperOnly

\* Caller c calls process_vad_chunk (transcribe.py:127-155): the
\* transcription in the executor, with no lock taken.
CallProcessVadChunk(c) ==
    /\ whisper.at[c] = "idle"
    /\ whisper' = [whisper EXCEPT !.op[c] = "process_vad_chunk", !.at[c] = "model"]
    /\ WhisperOnly

\* The transcription of c ends, with a result or an exception, and its
\* method returns; process_audio leaves the async with and releases the lock.
TranscriptionReturns(c) ==
    /\ whisper.at[c] = "model"
    /\ whisper' = [whisper EXCEPT
                      !.holder = IF whisper.op[c] = "process_audio" THEN "-" ELSE @,
                      !.op[c] = "none",
                      !.at[c] = "idle"]
    /\ WhisperOnly

NextWhisper ==
    \/ \E c \in Callers : CallProcessAudio(c)
    \/ \E c \in Callers : AcquireLock(c)
    \/ \E c \in Callers : CallProcessVadChunk(c)
    \/ \E c \in Callers : TranscriptionReturns(c)

SpecWhisper == Init /\ [][NextWhisper]_vars

\* --------------------------------------------------------- ESP32VoiceSystem
\* services/esp-home/main.py.  The zeroconf thread records the advertised
\* devices and queues them; two tasks of the event loop take them up: the
\* processor of the queue and the discovery loop, which passes over the
\* advertised devices every 30 s.  Neither suspends inside on_device_found.

\* Every variable but event and those of the other services.
coreVars ==
    << now, running, order, devices, micKnown, mic_states, pc, sweepList,
       current_time, handoff, nRecv, nDetect, triggered, episode, lastTrigger,
       windows, saved, pending, boot, whisper >>

\* ESP32VoiceSystem.on_device_found (main.py:232-269) for the device mac
\* advertised at ip: a known device is given a new client and task only when
\* its address has changed; an unknown one is given a client and a task.
on_device_found(e, mac, ip) ==
    IF e.host[mac] # NoHost
    THEN IF e.host[mac] # ip
         THEN [e EXCEPT !.host[mac] = ip, !.task[mac] = "running"]
         ELSE e
    ELSE [e EXCEPT !.host[mac] = ip, !.task[mac] = "running"]

\* The body of the for loop of _discovery_loop for one advertised device
\* (main.py:316-326).
DiscoveryVisit(e, mac) ==
    IF e.host[mac] = NoHost \/ e.task[mac] = "none"
    THEN on_device_found(e, mac, e.found[mac])
    ELSE IF e.task[mac] = "done"
    THEN on_device_found(e, mac, e.found[mac])
    ELSE e

\* The for loop of _discovery_loop over the devices of macs.
RECURSIVE DiscoveryFold(_, _)
DiscoveryFold(e, macs) ==
    IF macs = {} THEN e
    ELSE LET mac == CHOOSE m \in macs : TRUE
         IN  DiscoveryFold(DiscoveryVisit(e, mac), macs \ {mac})

EspStep(kind, mac) ==
    /\ event' = Event(kind, mac, <<>>)
    /\ UNCHANGED << coreVars, stream, dm, zigbee, wyoming >>

\* ESP32DiscoveryListener.add_service and update_service (main.py:33-90).
AddService(mac, ip) ==
    /\ Len(esp.queue) < MaxEspQueue
    /\ esp' = [esp EXCEPT !.found[mac] = ip,
                          !.queue = Append(@, [mac |-> mac, ip |-> ip])]
    /\ EspStep("add_service", mac)

\* ESP32DiscoveryListener.remove_service (main.py:61-67).
RemoveService(mac) ==
    /\ esp.found[mac] # NoHost
    /\ esp' = [esp EXCEPT !.found[mac] = NoHost]
    /\ EspStep("remove_service", mac)

\* process_discovered_devices: one device taken from the queue (main.py:271-291).
ProcessDiscovered ==
    /\ esp.queue # <<>>
    /\ LET info == Head(esp.queue)
       IN  esp' = [on_device_found(esp, info.mac, info.ip) EXCEPT !.queue = Tail(esp.queue)]
    /\ EspStep("device_processed", Head(esp.queue).mac)

\* The task of a client ends: VoiceAssistantClient.run returns after a
\* cancellation or an exception leaves it (main.py:176-209).
ClientTaskEnds(mac) ==
    /\ esp.task[mac] = "running"
    /\ esp' = [esp EXCEPT !.task[mac] = "done"]
    /\ EspStep("task_ended", mac)

\* _discovery_loop: one pass over found_devices (main.py:311-328).
DiscoveryPass ==
    /\ esp' = DiscoveryFold(esp, { mac \in Macs : esp.found[mac] # NoHost })
    /\ EspStep("discovery_pass", NoSource)

NextEsp ==
    \/ \E mac \in Macs, ip \in Hosts : AddService(mac, ip)
    \/ \E mac \in Macs : RemoveService(mac)
    \/ ProcessDiscovered
    \/ \E mac \in Macs : ClientTaskEnds(mac)
    \/ DiscoveryPass

SpecEsp == Init /\ [][NextEsp]_vars

\* -------------------------------------------------------- ClientEventHandler
\* services/stt-server/stt.py.  The events of one connection are handled one
\* after the other (the handler of the connection awaits handle_event before
\* it reads the next event), so that a whole handle_event is one step.

\* The types of the events of a client, and the samples a chunk may carry.
EventTypes == {"info", "audio-start", "audio-chunk", "audio-stop", "detection"}

ChunkSamples == {1, 2}

\* stop_and_process_audio that leaves the device streaming.
stop_keeps_streaming(s, ok) ==
    IF ok
    THEN [s EXCEPT !.is_recording = FALSE,
                   !.audio_buffer = <<>>,
                   !.silence_counter = 0,
                   !.vad_buffer = 0,
                   !.stops = @ + 1]
    ELSE [s EXCEPT !.is_recording = FALSE,
                   !.stops = @ + 1]

\* ClientEventHandler.stop_and_process_audio (stt.py:145-182): the flags are
\* cleared first; the buffers are cleared at the end unless the write of
\* AudioStop or the transcription raised (ok false).
stop_and_process_audio(s, ok) ==
    IF ok
    THEN [s EXCEPT !.is_recording = FALSE,
                   !.is_streaming = FALSE,
                   !.audio_buffer = <<>>,
                   !.silence_counter = 0,
                   !.vad_buffer = 0,
                   !.stops = @ + 1]
    ELSE [s EXCEPT !.is_recording = FALSE,
                   !.is_streaming = FALSE,
                   !.stops = @ + 1]

\* The audio-chunk branch of handle_event (stt.py:75-113) on a streaming
\* device: samples is the length of the payload, speech_prob what the VAD
\* answers if a frame is complete.
handle_chunk(s, samples, speech_prob, ok) ==
    IF s.age >= max_audio_length
    THEN stop_and_process_audio(s, ok)
    ELSE LET s1 == [s EXCEPT !.audio_buffer =
                                 IF s.is_recording THEN Append(@, samples) ELSE @,
                             !.vad_buffer =
                                 IF @ + samples > stream_chunk_size
                                 THEN stream_chunk_size ELSE @ + samples]
         IN  IF s1.vad_buffer < stream_chunk_size
             THEN s1
             ELSE LET s2 ==
                         IF speech_prob < stream_vad_threshold
                         THEN LET s3 == [s1 EXCEPT !.silence_counter = @ + 1]
                              IN  IF s3.silence_counter >= stream_silence_threshold
                                     /\ s3.age >= min_audio_length
                                  THEN stop_and_process_audio(s3, ok)
                                  ELSE s3
                         ELSE [s1 EXCEPT !.silence_counter = 0]
                  IN  [s2 EXCEPT !.vad_buffer = 0]

\* ClientEventHandler.handle_event (stt.py:50-130).
handle_event(s, type, samples, speech_prob, ok) ==
    IF ~s.is_registered
    THEN IF type = "info" THEN [s EXCEPT !.is_registered = TRUE] ELSE s
    ELSE IF type = "audio-start"
    THEN [s EXCEPT !.is_streaming = TRUE,
                   !.is_recording = TRUE,
                   !.age = 0,
                   !.audio_buffer = <<>>,
                   !.silence_counter = 0,
                   !.vad_buffer = 0,
                   !.stops = 0]
    ELSE IF type = "audio-chunk" /\ s.is_streaming
    THEN handle_chunk(s, samples, speech_prob, ok)
    ELSE IF type = "audio-stop"
    THEN IF s.is_streaming THEN stop_and_process_audio(s, ok) ELSE s
    ELSE s

StreamStep ==
    UNCHANGED << coreVars, esp, dm, zigbee, wyoming >>

\* An event of the client is read and handled.
HandleEvent(type, samples, speech_prob, ok) ==
    /\ (type = "audio-chunk" /\ stream.is_streaming) =>
          Len(stream.audio_buffer) < MaxStreamBuffer
    /\ stream' = handle_event(stream, type, samples, speech_prob, ok)
    /\ event' = Event(type, NoSource,
                      IF stream.is_registered /\ stream.is_streaming
                      THEN << "streaming" >> ELSE << "idle" >>)
    /\ StreamStep

\* Time passes while the device streams.
StreamTick ==
    /\ stream.is_streaming
    /\ stream.age < max_audio_length
    /\ stream' = [stream EXCEPT !.age = @ + 1]
    /\ event' = NoEvent
    /\ StreamStep

NextStream ==
    \/ \E type \in EventTypes, samples \in ChunkSamples, speech_prob \in Scores,
          ok \in BOOLEAN : HandleEvent(type, samples, speech_prob, ok)
    \/ StreamTick

SpecStream == Init /\ [][NextStream]_vars

\* ------------------------------------------------------------ DeviceManager
\* services/stt-server/device_manager.py.  devices maps an id to the group
\* of its device (NoGroup for None, NoEntry for no device); keys are the
\* keys of self.groups and groups their sets of ids.

\* DeviceManager.add_device (device_manager.py:53-58).
add_device(m, id, group) ==
    LET m1 == [m EXCEPT !.devices[id] = group]
    IN  IF group # NoGroup
        THEN [m1 EXCEPT !.keys = @ \cup {group},
                        !.groups[group] = (IF group \in m.keys THEN @ ELSE {}) \cup {id}]
        ELSE m1

\* DeviceManager.remove_device (device_manager.py:60-67).  set.remove raises
\* KeyError for an id that is not in the set of the group: the call ends
\* there, before anything is changed.
remove_device(m, id) ==
    IF m.devices[id] = NoEntry THEN m
    ELSE LET group == m.devices[id]
         IN  IF group # NoGroup /\ group \in m.keys
             THEN IF id \notin m.groups[group] THEN m
                  ELSE IF m.groups[group] = {id}
                  THEN [m EXCEPT !.groups[group] = {},
                                 !.keys = @ \ {group},
                                 !.devices[id] = NoEntry]
                  ELSE [m EXCEPT !.groups[group] = @ \ {id},
                                 !.devices[id] = NoEntry]
             ELSE [m EXCEPT !.devices[id] = NoEntry]

\* The ids get_group_devices(group_name) looks up in self.devices
\* (device_manager.py:69-72).
get_group_devices(m, group_name) ==
    IF group_name \notin m.keys THEN {} ELSE m.groups[group_name]

ManagerStep ==
    UNCHANGED << coreVars, esp, stream, zigbee, wyoming >>

AddDevice(id, group) ==
    /\ dm' = add_device(dm, id, group)
    /\ event' = Event("add_device", id, <<>>)
    /\ ManagerStep

RemoveDevice(id) ==
    /\ dm' = remove_device(dm, id)
    /\ event' = Event("remove_device", id, <<>>)
    /\ ManagerStep

NextManager ==
    \/ \E id \in DeviceIds, group \in GroupNames \cup {NoGroup} : AddDevice(id, group)
    \/ \E id \in DeviceIds : RemoveDevice(id)

SpecManager == Init /\ [][NextManager]_vars

\* ---------------------------------------------------- Zigbee2MQTTController
\* services/stt-server/zigbee_controller.py.

\* Zigbee2MQTTController.is_connected (zigbee_controller.py:32-34).
is_connected(z) == z.ws = "open"

\* A task that connect() starts if there is none or it is done.
Started(task, fresh) == IF task \in {"none", "done"} THEN fresh ELSE task

\* Zigbee2MQTTController.connect (zigbee_controller.py:128-173): ok says
\* whether one of the connection_retries attempts succeeds.  Every attempt
\* closes the websocket that is left; a success starts the tasks that are
\* not running.
connect(z, ok) ==
    IF is_connected(z) THEN z
    ELSE IF ok
    THEN [z EXCEPT !.ws = "open",
                   !.connected = TRUE,
                   !.message_processor = Started(@, "running"),
                   !.command_processor = Started(@, "running"),
                   !.listener = Started(@, "recv")]
    ELSE [z EXCEPT !.ws = IF @ = "none" THEN "none" ELSE "closed"]

\* recv of the listener raises ConnectionClosed once its websocket is closed.
Interrupted(listener) == IF listener = "recv" THEN "raised" ELSE listener

ZigbeeStep(kind) ==
    /\ event' = Event(kind, NoSource, <<>>)
    /\ UNCHANGED << coreVars, esp, stream, dm, wyoming >>

\* connect() called by the owner of the controller.
ZigbeeConnect(ok) ==
    /\ zigbee' = [connect(zigbee, ok) EXCEPT !.disconnected = FALSE]
    /\ ZigbeeStep("connect")

\* Zigbee2MQTTController.disconnect (zigbee_controller.py:237-248): the two
\* queue processors are cancelled and the websocket is closed.
ZigbeeDisconnect ==
    /\ zigbee' = [zigbee EXCEPT
                     !.message_processor = IF @ = "none" THEN @ ELSE "done",
                     !.command_processor = IF @ = "none" THEN @ ELSE "done",
                     !.ws = "none",
                     !.connected = FALSE,
                     !.listener = Interrupted(@),
                     !.disconnected = TRUE]
    /\ ZigbeeStep("disconnect")

\* The server closes the websocket.
ServerCloses ==
    /\ zigbee.ws = "open"
    /\ zigbee' = [zigbee EXCEPT !.ws = "closed", !.listener = Interrupted(@)]
    /\ ZigbeeStep("server_closed")

\* _listen_for_messages: recv returns a message, which is queued
\* (zigbee_controller.py:114-116).
ListenerReceives ==
    /\ zigbee.listener = "recv"
    /\ zigbee.ws = "open"
    /\ zigbee.messages < MaxZigbeeQueue
    /\ zigbee' = [zigbee EXCEPT !.messages = @ + 1]
    /\ ZigbeeStep("message")

\* _listen_for_messages: recv has raised ConnectionClosed because the
\* websocket it waited on has been closed; the handler forgets the websocket
\* of the controller and sleeps (zigbee_controller.py:117-120).
ListenerSeesClose ==
    /\ zigbee.listener = "raised"
    /\ zigbee' = [zigbee EXCEPT !.connected = FALSE, !.ws = "none", !.listener = "sleep"]
    /\ ZigbeeStep("listener_closed")

\* _listen_for_messages after its sleep: it is not connected and awaits
\* connect() (zigbee_controller.py:108-112); after a failure it comes back
\* to the same test.
ListenerReconnects(ok) ==
    /\ zigbee.listener = "sleep"
    /\ zigbee' = [connect(zigbee, ok) EXCEPT !.listener = IF ok THEN "recv" ELSE "sleep"]
    /\ ZigbeeStep("listener_connect")

\* _process_message_queue takes a message (zigbee_controller.py:63-78).
MessageProcessed ==
    /\ zigbee.message_processor = "running"
    /\ zigbee.messages > 0
    /\ zigbee' = [zigbee EXCEPT !.messages = @ - 1]
    /\ ZigbeeStep("message_processed")

NextZigbee ==
    \/ \E ok \in BOOLEAN : ZigbeeConnect(ok)
    \/ ZigbeeDisconnect
    \/ ServerCloses
    \/ ListenerReceives
    \/ ListenerSeesClose
    \/ \E ok \in BOOLEAN : ListenerReconnects(ok)
    \/ MessageProcessed

SpecZigbee == Init /\ [][NextZigbee]_vars

\* ------------------------------------------------------ WyomingClientWrapper
\* client/clients/wyoming_client.py.  The methods are coroutines called from
\* several tasks of one event loop (core/voice_assistant.py: handle_audio,
\* handle_wake_word, process_wyoming_events, handle_pipeline_finished).  A
\* write_event puts the event into the stream and then awaits the drain of
\* the stream, where the caller may be suspended while other tasks run:
\* suspends says whether it is.  ok says whether the write succeeds.

WyomingStep(kind) ==
    /\ event' = Event(kind, NoSource, <<>>)
    /\ UNCHANGED << coreVars, esp, stream, dm, zigbee >>

\* WyomingClientWrapper.connect (wyoming_client.py:21-32).
WyomingConnect(ok) ==
    /\ wyoming' = [wyoming EXCEPT !.client = TRUE, !.is_connected = ok]
    /\ WyomingStep("wyoming_connect")

\* WyomingClientWrapper.start_stream (wyoming_client.py:83-98), up to the
\* end of the call or to its suspension in the write of AudioStart.
start_stream(w, suspends, ok) ==
    IF ~w.client \/ w.is_streaming THEN w
    ELSE IF ~ok THEN [w EXCEPT !.is_connected = FALSE]
    ELSE IF suspends
    THEN [w EXCEPT !.sent = Append(@, "audio-start"), !.starting = @ + 1]
    ELSE [w EXCEPT !.sent = Append(@, "audio-start"), !.is_streaming = TRUE]

StartStream(suspends, ok) ==
    /\ Len(wyoming.sent) < MaxSent
    /\ suspends => wyoming.starting < MaxSuspended
    /\ wyoming' = start_stream(wyoming, suspends, ok)
    /\ WyomingStep("start_stream")

\* start_stream resumes after its write (wyoming_client.py:94).
StartResumes ==
    /\ wyoming.starting > 0
    /\ wyoming' = [wyoming EXCEPT !.starting = @ - 1, !.is_streaming = TRUE]
    /\ WyomingStep("start_resumed")

\* WyomingClientWrapper.stop_stream (wyoming_client.py:100-120), up to the
\* end of the call or to its suspension in the write of AudioStop.
stop_stream(w, suspends, ok) ==
    IF ~w.is_streaming THEN w
    ELSE IF ~(w.client /\ w.is_connected) THEN [w EXCEPT !.is_streaming = FALSE]
    ELSE IF ~ok THEN [w EXCEPT !.is_connected = FALSE, !.is_streaming = FALSE]
    ELSE IF suspends
    THEN [w EXCEPT !.sent = Append(@, "audio-stop"), !.stopping = @ + 1]
    ELSE [w EXCEPT !.sent = Append(@, "audio-stop"), !.is_streaming = FALSE]

StopStream(suspends, ok) ==
    /\ Len(wyoming.sent) < MaxSent
    /\ suspends => wyoming.stopping < MaxSuspended
    /\ wyoming' = stop_stream(wyoming, suspends, ok)
    /\ WyomingStep("stop_stream")

\* stop_stream resumes after its write (wyoming_client.py:119).
StopResumes ==
    /\ wyoming.stopping > 0
    /\ wyoming' = [wyoming EXCEPT !.stopping = @ - 1, !.is_streaming = FALSE]
    /\ WyomingStep("stop_resumed")

\* WyomingClientWrapper.send_audio_chunk (wyoming_client.py:122-139); nothing
\* follows its write, so its suspension changes nothing.
send_audio_chunk(w, ok) ==
    IF ~w.client \/ ~w.is_streaming THEN w
    ELSE IF ~ok THEN [w EXCEPT !.is_connected = FALSE]
    ELSE [w EXCEPT !.sent = Append(@, "audio-chunk")]

SendAudioChunk(ok) ==
    /\ Len(wyoming.sent) < MaxSent
    /\ wyoming' = send_audio_chunk(wyoming, ok)
    /\ WyomingStep("send_audio_chunk")

\* WyomingClientWrapper.disconnect (wyoming_client.py:34-42).
WyomingDisconnect(ok) ==
    /\ wyoming' = IF wyoming.client /\ ok
                  THEN [wyoming EXCEPT !.is_connected = FALSE]
                  ELSE wyoming
    /\ WyomingStep("wyoming_disconnect")

NextWyoming ==
    \/ \E ok \in BOOLEAN : WyomingConnect(ok)
    \/ \E suspends, ok \in BOOLEAN : StartStream(suspends, ok)
    \/ StartResumes
    \/ \E suspends, ok \in BOOLEAN : StopStream(suspends, ok)
    \/ StopResumes
    \/ \E ok \in BOOLEAN : SendAudioChunk(ok)
    \/ \E ok \in BOOLEAN : WyomingDisconnect(ok)

SpecWyoming == Init /\ [][NextWyoming]_vars

\* The stream is open after the first n events of sent: the last AudioStart
\* or AudioStop among them is an AudioStart.
StreamOpen(sent, n) ==
    \E j \in 1..n :
        /\ sent[j] = "audio-start"
        /\ \A k \in (j + 1)..n : sent[k] # "audio-stop"

\* ------------------------------------------------------------------ claims
\* A hand-off starts in this step: handle_speech_end has written the
\* utterance and awaits transcriber.process_audio.
HandoffStarts == pc # "transcribe" /\ pc' = "transcribe"

\* handle_speech_end returns in this step from a hand-off.
HandoffEnds == pc \in {"transcribe", "command"} /\ pc' \notin {"transcribe", "command"}

\* The fields the finally block of handle_speech_end leaves behind.
IsReset(d) ==
    /\ d.state = "DETECTING"
    /\ ~d.listening
    /\ d.audio_buffer = <<>>
    /\ d.detection_buffer = <<>>
    /\ d.vad_cursor = 0
    /\ d.silence_counter = 0

\* C1: a session is created in phase DETECTING, and its phase changes from
\* DETECTING to LISTENING only in the step of a sweep that is at this session
\* and in which detect returned true for its source.
C1_Step ==
    \A ip \in Sources :
        /\ (ip \notin Registered /\ ip \in Registered')
              => devices'[ip].state = "DETECTING" /\ ~devices'[ip].listening
        /\ (devices[ip].state = "DETECTING" /\ devices'[ip].state = "LISTENING")
              => /\ pc = "sweep"
                 /\ Head(sweepList) = ip
                 /\ ip \in Registered
                 /\ triggered' = ip

C1_WakeOnlyOnTrigger == [][C1_Step]_vars

\* C1 witness: a session that has just moved to LISTENING on a trigger.
C1_Witness ==
    \E ip \in Registered : triggered = ip /\ devices[ip].state = "LISTENING"

\* C2: a LISTENING episode is ended exactly once.  A silence run that reaches
\* silence_threshold on a long enough utterance starts a hand-off; a hand-off
\* that starts is the first of its episode and carries all bytes received
\* from the source since the trigger; when it ends the session is back in
\* DETECTING with its buffers cleared and the episode is over, so that no
\* later frame and no forced flush hands the same episode off again.
C2_Step ==
    /\ HandoffStarts =>
          /\ handoff'.ip = Head(sweepList)
          /\ devices[handoff'.ip].state = "LISTENING"
          /\ handoff'.audio = episode[handoff'.ip].recv
          /\ episode[handoff'.ip].handoffs = 0
          /\ episode'[handoff'.ip].handoffs = 1
    /\ HandoffEnds =>
          /\ IsReset(devices'[handoff.ip])
          /\ episode'[handoff.ip] = NoEpisode
          /\ handoff' = NoHandoff
    /\ \A ip \in Sources :
          /\ (devices'[ip].state = "LISTENING"
                /\ devices'[ip].silence_counter >= silence_threshold)
                => /\ pc' \in {"transcribe", "command"}
                   /\ handoff'.ip = ip
                   /\ LongEnough(devices[ip])
          /\ episode'[ip].handoffs <= 1
          /\ episode'[ip].handoffs = 1 => pc' \in {"transcribe", "command"} /\ handoff'.ip = ip

C3_Step ==
    LET ip == Head(sweepList)
        d  == devices[ip]
        in_turn == pc \in {"sweep", "vad"} /\ d.state = "LISTENING"
    IN  /\ (pc = "sweep" /\ ForcedFlush(d) /\ ~LongEnough(d)) =>
              /\ IsReset(devices'[ip])
              /\ pc' \notin {"transcribe", "command"}
              /\ handoff' = NoHandoff
        /\ (in_turn /\ ~LongEnough(d)) =>
              devices'[ip].silence_counter < silence_threshold
        /\ (in_turn /\ ip \in Registered' /\ devices'[ip].state = "DETECTING") =>
              /\ ~LongEnough(d)
              /\ IsReset(devices'[ip])
              /\ pc' \notin {"transcribe", "command"}
              /\ handoff' = NoHandoff
        /\ HandoffStarts => Len(handoff'.audio) >= MinAudioBytes
        /\ pc' = "command" => pc \in {"transcribe", "command"}

C3_ShortUtteranceDropped == [][C3_Step]_vars

\* C3 witness: a session that was LISTENING and received audio (its VAD
\* buffer holds samples) is back in DETECTING and reset although only two
\* datagrams were delivered, one of them before the trigger: its utterance
\* was shorter than min_audio_length and was dropped.
C3_Witness ==
    \E ip \in Registered :
        /\ devices[ip].listening_start_time >= 0
        /\ devices[ip].vad_buffer # NoDevice.vad_buffer
        /\ IsReset(devices[ip])
        /\ handoff = NoHandoff
        /\ nRecv = 2

\* C4: a session whose LISTENING phase has lasted max_listening_duration since
\* listening_start_time is forced back to DETECTING by the next sweep, even
\* when the source keeps sending: the sweep that reaches it flushes it and
\* goes on with the next session, so its VAD loop is never entered.
C4_OverdueSessionIsFlushed ==
    pc = "vad" =>
        current_time - devices[Head(sweepList)].listening_start_time
            < max_listening_duration

\* C5 as stated: a session whose last_activity is older than the eviction
\* timeout is removed by the sweep that reaches it.
C5_Original_Step ==
    (pc = "sweep" /\ Inactive(devices[Head(sweepList)]))
        => Head(sweepList) \notin Registered'

C5_Step ==
    /\ \A ip \in Sources :
          /\ (ip \in Registered /\ ip \notin Registered') =>
                /\ pc = "sweep"
                /\ Head(sweepList) = ip
                /\ current_time - devices[ip].last_activity > EvictionTimeout
                /\ devices[ip].state = "DETECTING"
                /\ sweepList' = Tail(sweepList)
                /\ mic_states' = mic_states
                /\ handoff' = handoff
                /\ triggered' = NoSource
          /\ (ip \notin Registered /\ ip \in Registered') =>
                /\ devices'[ip].state = "DETECTING"
                /\ ~devices'[ip].listening
                /\ devices'[ip].audio_buffer = <<>>
                /\ devices'[ip].vad_cursor = 0
                /\ devices'[ip].silence_counter = 0
                /\ Len(devices'[ip].detection_buffer) <= 1
                /\ devices'[ip].last_activity = now
    /\ (pc = "sweep" /\ Inactive(devices[Head(sweepList)])) =>
          LET ip == Head(sweepList)
          IN  IF devices[ip].state = "DETECTING"
              THEN ip \notin Registered'
              ELSE /\ ip \in Registered'
                   /\ \/ IsReset(devices'[ip])
                      \/ pc' = "transcribe" /\ handoff'.ip = ip

C6_RingHoldsMostRecent ==
    \A ip \in Registered :
        (devices[ip].state = "LISTENING" /\ ~episode[ip].drained) =>
            SubSeq(devices[ip].vad_buffer, 1, devices[ip].vad_cursor)
                = LastN(episode[ip].written, VadBufferLen)

\* C7: two calls of detect that return true for the same source are separated
\* by more than detection_cooldown.
C7_Step ==
    \A mic_id \in Sources :
        triggered' = mic_id =>
            \/ lastTrigger[mic_id] = NoTime
            \/ now - lastTrigger[mic_id] > detection_cooldown

C7_TriggersApartByCooldown == [][C7_Step]_vars

\* C7 witness: audio that qualifies for a trigger (a window above the
\* threshold that brings the counter to the confirmation threshold) arrived
\* within the cooldown of the previous trigger and produced none.
C7_Witness ==
    \E mic_id \in Sources :
        /\ lastTrigger[mic_id] = now
        /\ windows[mic_id] # <<>>
        /\ LET w == windows[mic_id][Len(windows[mic_id])]
           IN  /\ w.above
               /\ w.c0 + 1 >= consecutive_threshold
               /\ ~w.cool
               /\ ~w.trig

\* The last three scored windows of mic_id all scored above the threshold,
\* and the cooldown had elapsed at the first of them.
ThreeAbove(mic_id) ==
    /\ Len(windows[mic_id]) = 3
    /\ \A i \in 1..3 : windows[mic_id][i].above
    /\ windows[mic_id][1].cool

\* The number of those windows on which detect returned true.
Triggers(mic_id) == Cardinality({i \in 1..Len(windows[mic_id]) : windows[mic_id][i].trig})

C9_ServerPhaseBuffers ==
    \A ip \in Sources :
        LET d == devices[ip]
        IN  /\ d.state \in {"DETECTING", "LISTENING"}
            /\ d.listening <=> d.state = "LISTENING"
            /\ d.state = "DETECTING" => d.audio_buffer = <<>> /\ d.vad_cursor = 0
            /\ d.state = "LISTENING" => d.detection_buffer = <<>>

\* C9 on the sessions of client/udp_server.py, in the states the two loops
\* can observe (between sweeps): while not listening the utterance buffer and
\* the VAD buffer are empty; while listening the detection window holds no
\* sample.
C9_PhaseBuffers ==
    pc = "sleep" =>
        \A ip \in Registered :
            LET d == devices[ip]
            IN  /\ ~d.listening => d.audio_buffer = <<>> /\ d.vad_buffer = <<>>
                /\ d.listening => Concat(d.detection_buffer) = <<>>

\* C10: an exception raised while a sweep advances one session is caught for
\* that session only: the sessions the sweep has still to visit after it stay
\* to be visited in the same sweep.
C10_Step ==
    (pc = "sweep" /\ Len(sweepList) > 1) =>
        sweepList' \in {sweepList, Tail(sweepList)}

C10_SweepGoesOnAfterException == [][C10_Step]_vars

\* ------------------------------------------------------- claims C11 .. C20
\* A step the sweep of process_audio_loop takes on a device.
SweepStep ==
    SweepStart \/ SweepForced \/ SweepEvict \/ SweepDetect \/ SweepListen \/ SweepVad

\* A session other than the one handed off is due for removal.
OtherSessionIsDue ==
    \E ip \in Registered \ {handoff.ip} :
        now - devices[ip].last_activity > EvictionTimeout

\* C11: while the hand-off of one session waits for the transcription or the
\* command collaborator, the processing loop keeps sweeping: a session that
\* is due for a step of the sweep can take it before the hand-off completes.
C11_SweepGoesOnDuringHandoff ==
    (pc \in {"transcribe", "command"} /\ OtherSessionIsDue) => ENABLED SweepStep

\* C12: whenever the transcription collaborator is invoked with a session's
\* utterance, the session has already been reset: it is DETECTING with an
\* empty utterance buffer and a silence counter of 0.
C12_ResetBeforeTranscription ==
    pc = "transcribe" =>
        /\ devices[handoff.ip].state = "DETECTING"
        /\ devices[handoff.ip].audio_buffer = <<>>
        /\ devices[handoff.ip].silence_counter = 0

\* The last step was the failure of a collaborator in a hand-off: the
\* transcriber returned no text, or the command controller raised.
CollaboratorFailed(e) == e.kind \in {"no_text", "command_failed"}

\* C13: when the transcription or the command collaborator fails during a
\* hand-off, the failure does not escape the hand-off (the sweep goes on with
\* the next session and the server keeps running), the session ends in
\* DETECTING with an empty utterance buffer, an empty detection window, VAD
\* cursor 0 and a silence counter of 0, and no other session or the registry
\* is changed.
C13_Step ==
    CollaboratorFailed(event') =>
        /\ event'.ip = handoff.ip
        /\ IsReset(devices'[handoff.ip])
        /\ \A ip \in Sources \ {handoff.ip} : devices'[ip] = devices[ip]
        /\ order' = order
        /\ running' = running
        /\ sweepList' = Tail(sweepList)
        /\ handoff' = NoHandoff
        /\ pc' \in {"sweep", "sleep"}

C13_CollaboratorFailureContained == [][C13_Step]_vars

\* The command controller raised in the hand-off of Speaker while Bystander
\* held audio and was still to be visited by the sweep.
C13_Witness ==
    /\ event.kind = "command_failed"
    /\ event.ip = Speaker
    /\ IsReset(devices[Speaker])
    /\ Bystander \in Registered
    /\ devices[Bystander].detection_buffer # <<>>
    /\ sweepList = << Bystander >>

\* The last step delivered a datagram to a session that was LISTENING.
HeardWhileListening(ip) ==
    /\ event'.kind = "datagram"
    /\ event'.ip = ip
    /\ ip \in Registered
    /\ devices[ip].state = "LISTENING"

\* C14 as stated: the utterance buffer of a source is the concatenation, in
\* arrival order, of the payloads of the datagrams received from it while its
\* session was LISTENING: every such datagram extends the buffer by its
\* payload, and a datagram of another source leaves the buffer as it is.
C14_Original_Step ==
    \A ip \in Sources :
        /\ HeardWhileListening(ip) =>
              devices'[ip].audio_buffer = devices[ip].audio_buffer \o event'.data
        /\ (event'.kind = "datagram" /\ event'.ip # ip) =>
              devices'[ip].audio_buffer = devices[ip].audio_buffer

C14_Original == [][C14_Original_Step]_vars

\* C14: for every source, the utterance buffer equals at any moment the
\* concatenation, in arrival order, of the payloads of the whole-sample
\* datagrams received from that source while its session was LISTENING in
\* the current episode (a payload with an odd number of bytes adds nothing);
\* datagrams of other sources never appear in it.
C14_UtteranceIsWhatWasHeard ==
    \A ip \in Sources : devices[ip].audio_buffer = episode[ip].recv

\* Speaker has been heard three times while listening, the last time with a
\* payload unlike the first two, and Bystander is registered.
C14_Witness ==
    /\ devices[Speaker].state = "LISTENING"
    /\ devices[Speaker].audio_buffer = Speech \o Speech \o <<1, 0, 2, 0>>
    /\ Bystander \in Registered

\* An empty payload, or one that is not a whole number of 16-bit samples.
Malformed(data) == data = <<>> \/ Len(data) % 2 = 1

\* C15: a malformed or undersized datagram is ignored: the registry and every
\* session's phase, buffers and last activity are the same after it as before.
C15_Step ==
    (event'.kind = "datagram" /\ Malformed(event'.data)) =>
        /\ order' = order
        /\ devices' = devices

C15_MalformedDatagramIgnored == [][C15_Step]_vars

\* C16: stopping the server never persists partial-utterance data: when
\* stop() is called while a session holds a non-empty utterance buffer, no
\* audio file is written for that buffer.
C16_StopPersistsNothing ==
    event.kind = "stop" => saved = {}

\* C17: after stop() has been called, the ingestion loop creates no new
\* session and appends no further datagram to any session, a receive that
\* was in flight when stop() ran included.
C17_Step ==
    (~running /\ event'.kind = "datagram") =>
        /\ order' = order
        /\ devices' = devices

C17_NoIngestionAfterStop == [][C17_Step]_vars

\* Every bind attempt made so far has failed.
AllBindsFailed == \A i \in 1..Len(boot.tried) : ~boot.tried[i].ok

\* C18: when the ingestion socket cannot be bound, start_server fails to its
\* caller and neither loop is started; the server of client/udp_server.py
\* fails after exactly max_retries failed bind attempts, on the ports
\* base_port, base_port + 1, ..., base_port + max_retries - 1, and a bind
\* that succeeds on attempt i (counted from 0) leaves port = base_port + i.
C18_BindFailureAbortsStartup ==
    LET n == Len(boot.tried)
    IN  /\ boot.loops => (boot.status = "serving" /\ running)
        /\ boot.status = "failed" => (~boot.loops /\ ~running)
        /\ boot.variant = "stt" =>
              /\ n <= 1
              /\ (n = 1 /\ AllBindsFailed) => boot.status = "failed"
        /\ boot.variant = "client" =>
              /\ n <= max_retries
              /\ \A i \in 1..n : boot.tried[i].port = base_port + (i - 1)
              /\ \A i \in 1..(n - 1) : ~boot.tried[i].ok
              /\ boot.status = "failed" <=> (n = max_retries /\ AllBindsFailed)
              /\ (n > 0 /\ boot.tried[n].ok) =>
                    /\ boot.status = "serving"
                    /\ boot.loops
                    /\ boot.port = base_port + (n - 1)

\* The client's server has run out of attempts: three binds, all failed.
C18_Witness ==
    /\ boot.variant = "client"
    /\ boot.status = "failed"
    /\ Len(boot.tried) = max_retries
    /\ AllBindsFailed

\* The callers whose transcription is running on the shared model.
OnModel == { c \in Callers : whisper.at[c] = "model" }

\* C19: all transcription calls on the shared WhisperProcessor are
\* serialized: at no time are two transcriptions, by process_audio or by
\* process_vad_chunk, executing on the shared model.
C19_TranscriptionsSerialized == Cardinality(OnModel) <= 1

\* C20: when inference fails inside detect for a source, detect returns
\* false (the error does not escape it), the rolling buffer of the source is
\* emptied and its consecutive counter set to 0, and the detector state
\* (buffer, counter, last-trigger time) of every other source is unchanged.
C20_Step ==
    event'.kind = "detect_failed" =>
        /\ triggered' = NoSource
        /\ mic_states'[event'.ip].buffer = <<>>
        /\ mic_states'[event'.ip].consecutive_detections = 0
        /\ \A ip \in Sources \ {event'.ip} : mic_states'[ip] = mic_states[ip]
        /\ micKnown' = micKnown \cup {event'.ip}

C20_InferenceErrorResetsOneSource == [][C20_Step]_vars

\* Inference has just failed for one source while the other had a full
\* buffer and a window counted.
C20_Witness ==
    /\ event.kind = "detect_failed"
    /\ event.ip = "10.0.0.1"
    /\ mic_states["10.0.0.1"].buffer = <<>>
    /\ Len(mic_states["10.0.0.2"].buffer) = max_buffer_size
    /\ mic_states["10.0.0.2"].consecutive_detections > 0

\* ------------------------------------------------------- claims C21 .. C30
\* C21: calling detect with a chunk that is empty or holds a non-finite value
\* returns false and changes no detector state: no per-source entry is
\* created, and the rolling buffer, consecutive counter and last-trigger time
\* of every source are the same as before the call.
C21_Step ==
    event'.kind = "detect_rejected" =>
        /\ triggered' = NoSource
        /\ micKnown' = micKnown
        /\ mic_states' = mic_states

C21_RejectedChunkChangesNothing == [][C21_Step]_vars

\* End-of-speech handling was called for ip in this step: its utterance is
\* handed to the transcriber, or it was too short and the session is reset.
SpeechEnded(ip) ==
    \/ pc' = "transcribe" /\ handoff'.ip = ip
    \/ IsReset(devices'[ip])

\* C22: when the voice-activity scorer fails on a frame it returns 0.0 and
\* the processing loop treats the frame as silence: the silence counter is
\* incremented, and the failure that brings it to silence_threshold ends the
\* utterance instead of leaving the session listening.
C22_Step ==
    event'.kind = "vad_failed" =>
        LET ip == event'.ip
        IN  /\ process_chunk(ScorerError) < vad_threshold
            /\ devices[ip].state = "LISTENING"
            /\ IF devices[ip].silence_counter + 1 >= silence_threshold
               THEN SpeechEnded(ip)
               ELSE /\ devices'[ip].silence_counter = devices[ip].silence_counter + 1
                    /\ devices'[ip].state = "LISTENING"
                    /\ pc' = "vad"

C22_ScorerFailureIsSilence == [][C22_Step]_vars

\* A failure of the scorer has just ended a long enough utterance.
C22_Witness ==
    /\ event.kind = "vad_failed"
    /\ pc = "transcribe"
    /\ handoff.ip = event.ip
    /\ devices[event.ip].silence_counter = silence_threshold

\* C23: the wake-word scorer is invoked for a session only while the session
\* is DETECTING: a step in which detect works on the state of a source, or
\* returns true for it, is a step on a session that is not listening.
C23_Step ==
    \A ip \in Sources :
        (mic_states'[ip] # mic_states[ip] \/ triggered' = ip) =>
            ~devices[ip].listening

C23_ScoringOnlyWhileDetecting == [][C23_Step]_vars

\* C24: the session registry is changed by two actions only: the ingestion
\* loop inserts a session on the first datagram of an unknown source, and
\* the processing loop deletes the session its sweep is at on idle timeout;
\* wake transitions, VAD steps, hand-offs and stop leave the set of
\* registered sources as it is.
C24_Step ==
    order' # order =>
        \/ /\ event'.kind = "datagram"
           /\ event'.ip \notin Registered
           /\ order' = Append(order, event'.ip)
        \/ /\ pc = "sweep"
           /\ current_time - devices[Head(sweepList)].last_activity > EvictionTimeout
           /\ order' = Remove(order, Head(sweepList))

C24_RegistryChangedByTwoActions == [][C24_Step]_vars

\* A session has been deleted on idle timeout and the server has been
\* stopped: one of the two sessions is left.
C24_Witness ==
    /\ Len(order) = 1
    /\ ~running
    /\ event.kind = "none"
    /\ pc = "sleep"

\* C25: immediately after the transition of a session from DETECTING to
\* LISTENING its detection window is empty, its VAD cursor is 0, its silence
\* counter is 0 and its listening start time is the time of the transition.
C25_Step ==
    \A ip \in Sources :
        (devices[ip].state = "DETECTING" /\ devices'[ip].state = "LISTENING") =>
            /\ devices'[ip].listening
            /\ devices'[ip].detection_buffer = <<>>
            /\ devices'[ip].vad_cursor = 0
            /\ devices'[ip].silence_counter = 0
            /\ devices'[ip].listening_start_time = now

C25_FreshOnWake == [][C25_Step]_vars

\* A session has just started listening for the second time, later than the
\* start of the server: its VAD buffer still holds samples of the first time.
C25_Witness ==
    \E ip \in Sources :
        /\ triggered = ip
        /\ devices[ip].state = "LISTENING"
        /\ devices[ip].vad_buffer # NoDevice.vad_buffer
        /\ devices[ip].listening_start_time = now
        /\ now > StartTime

\* C26: for each VAD frame drained while LISTENING the silence counter is
\* reset to 0 if the frame scores above vad_threshold and is incremented by
\* one otherwise, a score exactly equal to the threshold included (the
\* increment that reaches silence_threshold ends the speech).
C26_Step ==
    event'.kind = "vad_frame" =>
        LET ip == event'.ip
            speech_prob == event'.data[1]
        IN  /\ devices[ip].state = "LISTENING"
            /\ devices'[ip].vad_cursor \in {devices[ip].vad_cursor - chunk_size, 0}
            /\ IF speech_prob > vad_threshold
               THEN devices'[ip].silence_counter = 0
               ELSE \/ devices'[ip].silence_counter = devices[ip].silence_counter + 1
                    \/ /\ devices[ip].silence_counter + 1 >= silence_threshold
                       /\ IsReset(devices'[ip])

C26_SilenceRunPerFrame == [][C26_Step]_vars

\* C27: while DETECTING, whenever the detection window is passed to the
\* wake-word scorer (the detector has worked on the state of the source in
\* this step), the window is cleared afterwards whatever the scorer returns.
C27_Step ==
    \A ip \in Sources :
        (devices[ip].state = "DETECTING" /\ mic_states'[ip] # mic_states[ip]) =>
            devices'[ip].detection_buffer = <<>>

C27_WindowClearedAfterScoring == [][C27_Step]_vars

\* The kinds of step in which detect took its chunk in.
DetectKinds == {"detect_buffered", "detect_scored", "detect_failed"}

\* The call of detect in this step ran inference: a window was scored, or the
\* inference raised.
InferenceRan == event'.kind \in {"detect_scored", "detect_failed"}

\* C28: after every detect call the rolling buffer of each source holds at
\* most max_buffer_size samples; the call appends its chunk and, when that
\* exceeds the capacity, keeps exactly the most recent max_buffer_size
\* samples in order; inference runs only in calls in which the buffer, after
\* the append, holds exactly max_buffer_size samples.
C28_Step ==
    /\ \A ip \in Sources : Len(mic_states'[ip].buffer) <= max_buffer_size
    /\ event'.kind \in DetectKinds =>
          LET mic_id == event'.ip
              joined == mic_states[mic_id].buffer \o event'.data
              kept == IF Len(joined) > max_buffer_size
                      THEN SubSeq(joined, Len(joined) - max_buffer_size + 1, Len(joined))
                      ELSE joined
          IN  /\ InferenceRan <=> Len(kept) = max_buffer_size
              /\ mic_states'[mic_id].buffer \in {kept, <<>>}
              /\ mic_states'[mic_id].buffer = <<>> => InferenceRan
              /\ \A ip \in Sources \ {mic_id} : mic_states'[ip] = mic_states[ip]

C28_RollingBufferBounded == [][C28_Step]_vars

\* A call has just appended to a buffer that overflowed: the buffer is full
\* and ends with the chunk of the call, and its head is not the head of the
\* chunk.
C28_Witness ==
    /\ event.kind = "detect_scored"
    /\ event.data = <<1>>
    /\ mic_states[event.ip].buffer = <<5, 6, 7, 1>>

\* The record of the window that the call of this step scored.
ScoredWindow(mic_id) == windows'[mic_id][Len(windows'[mic_id])]

\* C29: for every source the consecutive-detection counter is incremented by
\* an inference above the threshold and reset to 0 by any other inference,
\* and after every detect call it is at most twice the confirmation
\* threshold: a count that exceeds that bound without a trigger is reset to 0.
C29_Step ==
    /\ \A ip \in Sources :
          mic_states'[ip].consecutive_detections <= 2 * consecutive_threshold
    /\ event'.kind \in DetectKinds =>
          LET mic_id == event'.ip
              before == mic_states[mic_id].consecutive_detections
              after == mic_states'[mic_id].consecutive_detections
          IN  /\ event'.kind = "detect_buffered" => after = before
              /\ event'.kind = "detect_failed" => after = 0
              /\ event'.kind = "detect_scored" =>
                    LET w == ScoredWindow(mic_id)
                    IN  after = IF w.above /\ ~w.trig
                                   /\ before + 1 <= 2 * consecutive_threshold
                                THEN before + 1
                                ELSE 0

C29_CounterBounded == [][C29_Step]_vars

\* The safety valve has just fired: a window scored above the threshold with
\* the counter at twice the confirmation threshold, no trigger came of it
\* because of the cooldown, and the counter is 0.
C29_Witness ==
    /\ event.kind = "detect_scored"
    /\ windows[event.ip] # <<>>
    /\ LET w == windows[event.ip][Len(windows[event.ip])]
       IN  /\ w.above /\ ~w.trig /\ ~w.cool
           /\ w.c0 = 2 * consecutive_threshold
    /\ mic_states[event.ip].consecutive_detections = 0

\* C30: phase transitions are atomic with respect to the receive loop: no
\* datagram is appended to a session between the end-of-speech decision (or
\* the forced flush) of the sweep for it and the completion of its reset to
\* DETECTING, so that audio is never appended to an utterance buffer that has
\* been packaged for the hand-off.
C30_Step ==
    (/\ pc \in {"transcribe", "command"}
     /\ event'.kind = "datagram"
     /\ event'.ip = handoff.ip) =>
        devices'[handoff.ip].audio_buffer = devices[handoff.ip].audio_buffer

C30_NoAppendDuringHandoff == [][C30_Step]_vars

\* ------------------------------------------------------- claims C31 .. C39
\* The sweep is at a LISTENING session that has been idle for the forced-save
\* duration or longer.
IdleListening ==
    /\ pc = "sweep"
    /\ devices[Head(sweepList)].state = "LISTENING"
    /\ current_time - devices[Head(sweepList)].last_activity >= max_listening_duration

\* C32: a session leaves the registry only while it is DETECTING with an
\* empty utterance buffer; the sweep that is at a LISTENING session that has
\* gone idle flushes it (hand-off, or discard and reset) and does not remove it.
C32_Step ==
    /\ \A ip \in Sources :
          (ip \in Registered /\ ip \notin Registered') =>
              /\ devices[ip].state = "DETECTING"
              /\ devices[ip].audio_buffer = <<>>
    /\ IdleListening =>
          LET ip == Head(sweepList)
          IN  /\ ip \in Registered'
              /\ \/ pc' = "transcribe" /\ handoff'.ip = ip
                                       /\ handoff'.audio = devices[ip].audio_buffer
                 \/ IsReset(devices'[ip]) /\ ~LongEnough(devices[ip])

C32_EvictionOnlyWhileDetecting == [][C32_Step]_vars

\* A LISTENING session that had been idle for longer than the eviction timeout
\* when the sweep came to it is being handed off, still registered.
C32_Witness ==
    /\ pc = "transcribe"
    /\ handoff.ip \in Registered
    /\ handoff.audio # <<>>
    /\ current_time - devices[handoff.ip].last_activity > EvictionTimeout

\* C33: in every reachable state the two phase flags of every session agree:
\* the state is LISTENING exactly when listening is true and DETECTING exactly
\* when it is false.
C33_PhaseFlagsAgree ==
    \A ip \in Registered :
        /\ devices[ip].state \in {"DETECTING", "LISTENING"}
        /\ devices[ip].state = "LISTENING" <=> devices[ip].listening
        /\ devices[ip].state = "DETECTING" <=> ~devices[ip].listening

\* A session that was woken and has been reset since, and one that is
\* listening now.
C33_Witness ==
    \E ip \in Registered :
        /\ devices[ip].state = "DETECTING"
        /\ ~devices[ip].listening
        /\ devices[ip].listening_start_time # 0 - 1
        /\ \E other \in Registered :
              devices[other].state = "LISTENING" /\ devices[other].listening

\* C34: an inference error in detect for a source records the current time
\* as the last-trigger time of the source although detect returns false, and
\* detect returns true for a source only when more than detection_cooldown
\* has passed since the time recorded for it: no trigger fires for the source
\* within the cooldown after the error.
C34_Step ==
    /\ event'.kind = "detect_failed" =>
          /\ mic_states'[event'.ip].last_detection_time = now
          /\ triggered' = NoSource
          /\ lastTrigger' = lastTrigger
    /\ \A mic_id \in Sources :
          triggered' = mic_id =>
              now - mic_states[mic_id].last_detection_time > detection_cooldown

C34_ErrorStartsCooldown == [][C34_Step]_vars

\* The time recorded for a source is that of an inference error, no trigger
\* has fired for it, and inside the cooldown after the error a window above
\* the threshold brought the counter to the confirmation threshold without a
\* trigger.
C34_Witness ==
    \E mic_id \in Sources :
        /\ lastTrigger[mic_id] = NoTime
        /\ mic_states[mic_id].last_detection_time = now
        /\ mic_states[mic_id].consecutive_detections >= consecutive_threshold
        /\ windows[mic_id] # <<>>
        /\ LET w == windows[mic_id][Len(windows[mic_id])]
           IN  w.above /\ ~w.cool /\ ~w.trig

\* C35: the detector state of a source is never removed once created: the
\* removal of the session of a source from the registry leaves the rolling
\* buffer, the consecutive counter and the last-trigger time of every source
\* as they are, and so does the creation of a session, so that a session
\* created again for the source goes on with the detector state from before
\* the removal.
C35_Step ==
    /\ micKnown \subseteq micKnown'
    /\ \A ip \in Sources :
          (ip \in Registered) # (ip \in Registered') => mic_states' = mic_states

C35_DetectorStateSurvivesEviction == [][C35_Step]_vars

\* A session has just been created for a source by its first datagram, and
\* the detector holds samples of the source from a session that was removed.
C35_Witness ==
    \E ip \in Registered :
        /\ event.kind = "datagram"
        /\ event.ip = ip
        /\ event.data # <<>>
        /\ ~FromBufferRaises(event.data)
        /\ Len(devices[ip].detection_buffer) = 1
        /\ devices[ip].listening_start_time = 0 - 1
        /\ ip \in micKnown
        /\ mic_states[ip].buffer # <<>>

\* C31: when the periodic discovery loop finds a device that is still
\* advertised and whose client task has ended, it restarts it: after the pass
\* a running client task exists for the MAC of the device.
C31_Step ==
    event'.kind = "discovery_pass" =>
        \A mac \in Macs :
            (esp.found[mac] # NoHost /\ esp.task[mac] = "done") =>
                esp'.task[mac] = "running"

C31_EndedClientRestarted == [][C31_Step]_vars

\* C36: in the Wyoming stream handler each audio stream, from an audio-start
\* event to its end, is stopped and processed at most once: after
\* stop_and_process_audio has run, because of the maximal length, of silence
\* or of audio-stop, further audio-chunk and audio-stop events are ignored and
\* buffer nothing until the next audio-start.
C36_Step ==
    /\ stream'.stops <= 1
    /\ (event'.kind \in {"audio-chunk", "audio-stop"} /\ stream.stops > 0) =>
          stream' = stream
    /\ stream'.stops > stream.stops => stream.is_streaming /\ ~stream'.is_streaming

C36_StreamStoppedOnce == [][C36_Step]_vars

\* An audio-chunk event has just been ignored by a device whose stream had
\* been stopped.
C36_Witness ==
    /\ event.kind = "audio-chunk"
    /\ event.data = << "idle" >>
    /\ stream.is_registered
    /\ stream.stops = 1
    /\ ~stream.is_streaming

\* C37: after any sequence of add_device and remove_device calls the group
\* index matches the device table: for every group name g, groups[g] is
\* exactly the set of the ids of the registered devices whose group is g, no
\* group maps to an empty set, and get_group_devices never refers to an
\* unregistered device, also when an id is added again with another group.
C37_GroupIndexMatchesTable ==
    \A g \in GroupNames :
        /\ g \in dm.keys => dm.groups[g] = { id \in DeviceIds : dm.devices[id] = g }
        /\ g \in dm.keys => dm.groups[g] # {}
        /\ g \notin dm.keys => { id \in DeviceIds : dm.devices[id] = g } = {}
        /\ \A id \in get_group_devices(dm, g) : dm.devices[id] # NoEntry

\* C38: after Zigbee2MQTTController.disconnect() has completed the controller
\* stays disconnected until connect() is called again: no background task
\* that the controller started is left running that can open the websocket
\* again on its own.
C38_StaysDisconnected ==
    zigbee.disconnected => (~is_connected(zigbee) /\ ~zigbee.connected)

\* C39: the Wyoming client wrapper sends audio chunks only between a sent
\* AudioStart and the stop that follows it, and sends no second AudioStart
\* while the stream is open: every AudioChunk written to the server comes
\* after an AudioStart with no AudioStop in between, and every AudioStart
\* comes when no stream is open.
C39_ChunksInsideStream ==
    \A i \in 1..Len(wyoming.sent) :
        /\ wyoming.sent[i] = "audio-chunk" => StreamOpen(wyoming.sent, i - 1)
        /\ wyoming.sent[i] = "audio-start" => ~StreamOpen(wyoming.sent, i - 1)

=============================================================================
